---- MODULE Spec2Model ----
(***************************************************************************)
(* The host plugin (src/src/aac-encoder.cc) and the encoder co-process     *)
(* (src/encoder-proc/encoder-proc.cc) of obs-coreaudio-encoder-linux,      *)
(* talking over the request pipe (host -> co-process stdin) and the data   *)
(* pipe (co-process stdout -> host).                                       *)
(*                                                                         *)
(* The CoreAudio converter is an external library.  Its replies are        *)
(* modelled by the Codec* definitions (small stand-in numbers for the      *)
(* frames per packet, the priming frames and the bit-rate ranges) and by   *)
(* the nondeterministic outcome of every AudioConverterFillComplexBuffer   *)
(* call.                                                                   *)
(***************************************************************************)
EXTENDS Integers, Sequences, FiniteSets, TLC

(***************************************************************************)
(* Bounds of the model.                                                    *)
(***************************************************************************)
\* calls (aac_encode, aac_extra_data) the host makes in one session
MaxCalls == 3
\* the most frames in the payload of one encode request
MaxFrames == 4
\* input-callback invocations in one AudioConverterFillComplexBuffer call
MaxPulls == 2
\* width in bits the 64-bit sample clock is modelled with
PtsBits == 12
\* records and payloads a client writes to the co-process in one session
MaxClientWrites == 3
\* the most bytes one read of the diagnostic pipe returns
ReadSize == 2
\* bytes the co-process writes to stderr in one session
MaxDiag == 4

(***************************************************************************)
(* Program constants.                                                      *)
(***************************************************************************)
\* '\n'
NewLine == 10

ENCODER_FLAG_ALLOW_HE_AAC == 1
ENCODER_FLAG_QUERY_ENCODE == 2
ENCODER_FLAG_QUERY_EXTRA_DATA == 4
ENCODER_FLAG_EXIT == 8
\* sizeof(struct encoder_settings): eight uint32_t
SizeofEncoderSettings == 32
\* sizeof(float)
SizeofFloat == 4
\* the protocol version both programs are compiled with; the header
\* encoder-proc-version.h is made at build time and the value is only ever
\* compared with that of the other side
ENCODER_PROC_VERSION == 1
\* the status complex_input_data_proc returns when it has no data
StatusStarved == 1
\* a nonzero OSStatus other than 1, e.g. kAudioConverterErr_UnspecifiedError
StatusError == 2

\* a test that takes any flag for the one asked about
flag_is_any(flags, bit) == flags # 0

HasFlag(flags, bit) == (flags \div bit) % 2 = 1

Modulus == 2 ^ PtsBits
\* a value of the unsigned sample clock read as a signed integer of the same width
ToSigned(u) == IF u % Modulus >= Modulus \div 2 THEN (u % Modulus) - Modulus ELSE u % Modulus

(***************************************************************************)
(* Records of encoder-proc.h.                                              *)
(***************************************************************************)
encoder_settings(ss, v, br, ch, sin, sout, fl, ofpp) ==
    [struct_size |-> ss, proc_version |-> v, bitrate |-> br, channels |-> ch,
     samplerate_in |-> sin, samplerate_out |-> sout, flags |-> fl,
     out_frames_per_packet |-> ofpp]

NoSettings == encoder_settings(0, 0, 0, 0, 0, 0, 0, 0)

encoder_data_header(sz, fr, pts, fl) ==
    [size |-> sz, frames |-> fr, pts |-> pts, flags |-> fl]

NoHeader == encoder_data_header(0, 0, 0, 0)

\* what travels on a pipe: a settings record, a data header or a payload
SettingsItem(s) == [kind |-> "settings", rec |-> s, hdr |-> NoHeader, bytes |-> <<>>]
HeaderItem(h) == [kind |-> "header", rec |-> NoSettings, hdr |-> h, bytes |-> <<>>]
PayloadItem(b) == [kind |-> "payload", rec |-> NoSettings, hdr |-> NoHeader, bytes |-> b]

(***************************************************************************)
(* The external codec: what the converter answers.                         *)
(***************************************************************************)
HE_V2 == "kAudioFormatMPEG4AAC_HE_V2"
HE == "kAudioFormatMPEG4AAC_HE"
AAC == "kAudioFormatMPEG4AAC"

\* kAudioConverterApplicableEncodeBitRates of a converter of the format
CodecBitRateRanges(format, srate) ==
    CASE format = HE_V2 -> {<<16000, 48000>>}
      [] format = HE -> {<<32000, 48000>>, <<64000, 64000>>}
      [] format = AAC /\ srate = 32000 -> {<<96000, 160000>>}
      [] OTHER -> {<<64000, 128000>>, <<192000, 256000>>}

\* mFramesPerPacket of the converter's current output stream description
\* (1024 for AAC-LC, 2048 for the HE variants; scaled down)
CodecOutFramesPerPacket(format) == IF format = AAC THEN 2 ELSE 4

\* mFramesPerPacket of the converter's current input stream description:
\* 1 as aac_create set it for linear PCM, or what a converter reports that
\* packs its input otherwise
CodecInFramesPerPacket(fault) == IF fault = "in_frames" THEN 3 ELSE 1

\* leadingFrames of kAudioConverterPrimeInfo (2112 for AAC-LC; scaled down)
CodecLeadingFrames(format) == IF format = AAC THEN 3 ELSE 5

\* kAudioConverterPropertyMaximumOutputPacketSize (scaled down); every packet
\* the converter produces is taken to be this long
CodecMaximumOutputPacketSize == 2

\* the faults of the converter API at configuration: none, or one of its
\* calls returns a nonzero status
CodecFaults == {"none", "format_info", "converter_new", "rate_control", "property"}

\* what the converter does in one AudioConverterFillComplexBuffer call: how
\* often it invokes the input callback, the status it returns, the packets it
\* reports and the size of the packet
CodecBehaviours ==
    [pulls : 0..MaxPulls, status : {0, StatusStarved, StatusError},
     packets : {0, 1}, size : {CodecMaximumOutputPacketSize}]

\* the payload of the decoder-specific descriptor of the codec's cookie
DecoderSpecificInfo == <<18, 16>>

\* the descriptor tags of the cookie
MP4ESDescrTag == 3
MP4DecConfigDescrTag == 4
MP4DecSpecificDescrTag == 5

\* a descriptor size n < 128 written in k bytes: k - 1 continuation bytes
\* with no payload bits, then n
DescrLen(n, k) == [i \in 1..k |-> IF i < k THEN 128 ELSE n]

\* the 13 bytes of the wrapper ahead of its nested descriptor: object type,
\* stream type, buffer size (3), maximum bitrate (4), average bitrate (4)
DecConfigFields == <<64, 21, 0, 0, 0, 0, 0, 0, 0, 0, 0, 0, 0>>

\* a cookie as the converter lays it out: an outer descriptor with tag t1,
\* its 2-byte ID and, for an ES descriptor, the priority byte; the wrapper
\* with tag t2 and its fields; the nested descriptor with tag t3, its size
\* in k bytes and its payload; a closing descriptor with tag 6
EsdsTree(t1, t2, t3, k, payload) ==
    LET nested == <<t3>> \o DescrLen(Len(payload), k) \o payload
        wrapper == <<t2>> \o DescrLen(Len(DecConfigFields) + Len(nested), 1)
                          \o DecConfigFields \o nested
        body == <<0, 0>> \o (IF t1 = MP4ESDescrTag THEN <<0>> ELSE <<>>)
                         \o wrapper \o <<6, 1, 2>>
    IN  <<t1>> \o DescrLen(Len(body), 1) \o body

\* a tree that starts with the wrapper, with no outer descriptor
WrapperTree(k, payload) ==
    LET nested == <<MP4DecSpecificDescrTag>> \o DescrLen(Len(payload), k) \o payload
    IN  <<MP4DecConfigDescrTag>> \o DescrLen(Len(DecConfigFields) + Len(nested), 1)
                                 \o DecConfigFields \o nested

\* a read beyond the buffer that is not mapped
Trap == 256

\* what kAudioConverterCompressionMagicCookie yields: the status of
\* AudioConverterGetPropertyInfo, the bytes whose count it reports, the
\* status of AudioConverterGetProperty, whether that call sets the size to
\* 0, and the byte that a read beyond the buffer finds (Trap: none)
Cookie(info_status, bytes, get_status, got_zero, beyond) ==
    [info_status |-> info_status, bytes |-> bytes, get_status |-> get_status,
     got_zero |-> got_zero, beyond |-> beyond]

CookieInfoError == Cookie(StatusError, <<>>, 0, FALSE, 0)
CookieZeroSize == Cookie(0, <<>>, 0, FALSE, 0)
CookieGetError ==
    Cookie(0, EsdsTree(MP4ESDescrTag, MP4DecConfigDescrTag, MP4DecSpecificDescrTag,
                       1, DecoderSpecificInfo), StatusError, FALSE, 0)
CookieGotZero ==
    Cookie(0, EsdsTree(MP4ESDescrTag, MP4DecConfigDescrTag, MP4DecSpecificDescrTag,
                       1, DecoderSpecificInfo), 0, TRUE, 0)
CookieNoDescriptor ==
    Cookie(0, EsdsTree(MP4ESDescrTag, MP4DecConfigDescrTag, 6, 1, <<2>>), 0, FALSE, 0)
CookieDescriptor ==
    Cookie(0, EsdsTree(MP4ESDescrTag, MP4DecConfigDescrTag, MP4DecSpecificDescrTag,
                       1, DecoderSpecificInfo), 0, FALSE, 0)

\* the cookies of the converter in a session
CookieOutcomes ==
    {CookieInfoError, CookieZeroSize, CookieGetError, CookieGotZero,
     CookieNoDescriptor, CookieDescriptor}

(***************************************************************************)
(* encoder-proc.cc: the encoder state and its functions.                   *)
(***************************************************************************)
\* struct ca_encoder with its default member initializers
ca_encoder ==
    [format_id |-> "", converter |-> 0, output_buffer_size |-> 0,
     out_frames_per_packet |-> 0, in_frame_size |-> 0, in_bytes_required |-> 0,
     input_buffer |-> <<>>, encode_buffer |-> <<>>, total_samples |-> 0,
     samples_per_second |-> 0, priming_samples |-> 0, extra_data |-> <<>>,
     channels |-> 0]

\* the converter handles: how many were created, and which are not disposed
\* the converters made so far and the ones not disposed of, and what
\* aac_create has set on the encoder's converter: kAudioConverterChannelMap
\* (<<>>: not set) and the tag of the two channel layouts (0: not set)
NoConverters == [created |-> 0, live |-> {}, channel_map |-> <<>>, channel_layout |-> 0]

\* an aac_create that sets no channel map
channel_map_unset(channels) == <<>>

\* aac_create: the channel map for the channel count
channel_map(channels) ==
    CASE channels = 3 -> <<2, 0, 1>>
      [] channels = 4 -> <<2, 0, 1, 3>>
      [] channels = 5 -> <<2, 0, 1, 3, 4>>
      [] channels = 6 -> <<2, 0, 1, 4, 5, 3>>
      [] channels = 8 -> <<2, 0, 1, 6, 7, 4, 5, 3>>
      [] OTHER -> <<>>

\* aac_create: kAudioChannelLayoutTag_MPEG_4_0_B for four channels
channel_layout(channels) == IF channels = 4 THEN 116 * 65536 + 4 ELSE 0

aac_formats == <<HE_V2, HE, AAC>>

aac_lc_formats == <<AAC>>

\* a get_allowed_formats that does not look at the channels
get_allowed_formats_any_channels(settings) ==
    IF HasFlag(settings.flags, ENCODER_FLAG_ALLOW_HE_AAC)
    THEN aac_formats
    ELSE aac_lc_formats

get_allowed_formats(settings) ==
    IF HasFlag(settings.flags, ENCODER_FLAG_ALLOW_HE_AAC) /\ settings.channels # 3
    THEN aac_formats
    ELSE aac_lc_formats

\* a bitrate_valid that takes the ends of a range as outside it
bitrate_valid_exclusive(format_id, srate, bitrate) ==
    \E r \in CodecBitRateRanges(format_id, srate) : r[1] < bitrate /\ bitrate < r[2]

\* bitrate_valid for the converter of a format and an output sample rate
bitrate_valid(format_id, srate, bitrate) ==
    \E r \in CodecBitRateRanges(format_id, srate) : r[1] <= bitrate /\ bitrate <= r[2]

\* a create_encoder that does not ask for the applicable bitrates
create_encoder_any_bitrate(ca, conv, format_id, bitrate, samplerate, fault) ==
    IF fault \in {"format_info", "converter_new", "rate_control"}
    THEN [ok |-> FALSE, ca |-> ca, conv |-> conv]
    ELSE [ok |-> TRUE,
          ca |-> [ca EXCEPT !.converter = conv.created + 1, !.format_id = format_id],
          conv |-> [conv EXCEPT !.created = conv.created + 1,
                                !.live = conv.live \cup {conv.created + 1}]]

\* [ok, ca, conv] after trying one candidate format
create_encoder(ca, conv, format_id, bitrate, samplerate, fault) ==
    IF fault \in {"format_info", "converter_new"}
    THEN [ok |-> FALSE, ca |-> ca, conv |-> conv]
    ELSE LET srate == IF samplerate # 0 THEN samplerate ELSE ca.samples_per_second
             id == conv.created + 1
             conv2 == [conv EXCEPT !.created = id, !.live = conv.live \cup {id}]
             ca2 == [ca EXCEPT !.converter = id]
         IN  IF fault = "rate_control" \/ ~bitrate_valid(format_id, srate, bitrate)
             THEN [ok |-> FALSE, ca |-> ca2, conv |-> conv2]
             ELSE [ok |-> TRUE, ca |-> [ca2 EXCEPT !.format_id = format_id],
                   conv |-> conv2]

\* the loop of aac_create over the allowed formats, from candidate i on
RECURSIVE try_formats(_, _, _, _, _, _, _)
try_formats(ca, conv, formats, i, bitrate, samplerate, fault) ==
    IF i > Len(formats)
    THEN [ok |-> FALSE, ca |-> ca, conv |-> conv]
    ELSE LET r == create_encoder(ca, conv, formats[i], bitrate, samplerate, fault)
         IN  IF r.ok THEN r
             ELSE try_formats(r.ca, r.conv, formats, i + 1, bitrate, samplerate, fault)

\* ~ca_encoder
ca_encoder_dtor(ca, conv) ==
    IF ca.converter # 0
    THEN [conv EXCEPT !.live = @ \ {ca.converter}]
    ELSE conv

\* [ok, ca, conv]: ok = FALSE is the nullptr result, the instance destroyed
aac_create(settings, conv, fault) ==
    IF settings.bitrate = 0
    THEN [ok |-> FALSE, ca |-> ca_encoder, conv |-> conv]
    ELSE
    LET ca0 == [ca_encoder EXCEPT !.channels = settings.channels,
                                  !.samples_per_second = settings.samplerate_in]
        bytes_per_frame == SizeofFloat * settings.channels
        r == try_formats(ca0, conv, get_allowed_formats(settings), 1,
                         settings.bitrate, settings.samplerate_out, fault)
    IN  IF ~r.ok \/ fault = "property"
        THEN [ok |-> FALSE, ca |-> ca_encoder, conv |-> ca_encoder_dtor(r.ca, r.conv)]
        ELSE LET out_frames == CodecOutFramesPerPacket(r.ca.format_id)
                 in_packets == out_frames \div CodecInFramesPerPacket(fault)
             IN  [ok |-> TRUE,
                  ca |-> [r.ca EXCEPT !.in_frame_size = bytes_per_frame,
                                      !.in_bytes_required = in_packets * bytes_per_frame,
                                      !.out_frames_per_packet = out_frames,
                                      !.priming_samples = CodecLeadingFrames(r.ca.format_id),
                                      !.output_buffer_size = CodecMaximumOutputPacketSize],
                  conv |-> [r.conv EXCEPT !.channel_map = channel_map(r.ca.channels),
                                          !.channel_layout = channel_layout(r.ca.channels)]]

\* an input callback that leaves the bytes it hands out in input_buffer
complex_input_data_proc_no_erase(ca) ==
    IF Len(ca.input_buffer) < ca.in_bytes_required
    THEN [ret |-> 1, ca |-> ca, slice |-> <<>>, packets |-> 0]
    ELSE LET slice == SubSeq(ca.input_buffer, 1, ca.in_bytes_required)
         IN  [ret |-> 0,
              ca |-> [ca EXCEPT !.encode_buffer = slice],
              slice |-> slice,
              packets |-> ca.in_bytes_required \div ca.in_frame_size]

\* an input callback that asks for one frame from then on
complex_input_data_proc_requires_less(ca) ==
    IF Len(ca.input_buffer) < ca.in_bytes_required
    THEN [ret |-> 1, ca |-> ca, slice |-> <<>>, packets |-> 0]
    ELSE LET slice == SubSeq(ca.input_buffer, 1, ca.in_bytes_required)
             rest == SubSeq(ca.input_buffer, ca.in_bytes_required + 1,
                            Len(ca.input_buffer))
         IN  [ret |-> 0,
              ca |-> [ca EXCEPT !.encode_buffer = slice, !.input_buffer = rest,
                                !.in_bytes_required = ca.in_frame_size],
              slice |-> slice,
              packets |-> ca.in_bytes_required \div ca.in_frame_size]

\* [ret, ca, slice]: one invocation of the input callback
complex_input_data_proc(ca) ==
    IF Len(ca.input_buffer) < ca.in_bytes_required
    THEN [ret |-> 1, ca |-> ca, slice |-> <<>>, packets |-> 0]
    ELSE LET slice == SubSeq(ca.input_buffer, 1, ca.in_bytes_required)
             rest == SubSeq(ca.input_buffer, ca.in_bytes_required + 1,
                            Len(ca.input_buffer))
         IN  [ret |-> 0,
              ca |-> [ca EXCEPT !.encode_buffer = slice, !.input_buffer = rest],
              slice |-> slice,
              packets |-> ca.in_bytes_required \div ca.in_frame_size]

\* the converter invoking the callback up to n times, stopping when the
\* callback reports that it has no data: [ca, starved, slices]
RECURSIVE AudioConverterFillComplexBuffer(_, _, _)
AudioConverterFillComplexBuffer(ca, n, slices) ==
    IF n = 0
    THEN [ca |-> ca, starved |-> FALSE, slices |-> slices]
    ELSE LET r == complex_input_data_proc(ca)
         IN  IF r.ret # 0
             THEN [ca |-> ca, starved |-> TRUE, slices |-> slices]
             ELSE AudioConverterFillComplexBuffer(r.ca, n - 1, Append(slices, r.slice))

\* the behaviours the converter can show with this input: it returns 0 only
\* with a packet and only when the callback never failed; it returns the
\* callback's status 1 only when the callback returned it
CodecCanBehave(ca, codec) ==
    LET r == AudioConverterFillComplexBuffer(ca, codec.pulls, <<>>)
    IN  /\ codec.status = 0 => ~r.starved /\ codec.packets = 1
        /\ codec.status = StatusStarved => r.starved
        /\ codec.status = StatusError => codec.packets = 0

PacketBytes(n) == [i \in 1..n |-> 0]

\* an aac_encode without the early return
input_never_short(ca) == FALSE

\* an aac_encode that stamps the packet after it advanced total_samples
packet_pts_advanced(ca) ==
    ToSigned(ca.total_samples + ca.in_bytes_required \div ca.in_frame_size
             - ca.priming_samples)

\* aac_encode: input_buffer holds less than one push of the converter
input_short(ca) == Len(ca.input_buffer) < ca.in_bytes_required

\* aac_encode: the timestamp of a packet, total_samples - priming_samples
\* assigned to the signed pts
packet_pts(ca) == ToSigned(ca.total_samples - ca.priming_samples)

\* [ok, ca, packet, packet_data, invoked, status, slices]
aac_encode(ca, frame, frame_data, packet, codec) ==
    LET ca1 == [ca EXCEPT !.input_buffer = @ \o SubSeq(frame_data, 1, frame.size)]
    IN  IF input_short(ca1)
        THEN [ok |-> TRUE, ca |-> ca1, packet |-> packet, packet_data |-> <<>>,
              invoked |-> FALSE, status |-> 0, slices |-> <<>>]
        ELSE LET r == AudioConverterFillComplexBuffer(ca1, codec.pulls, <<>>)
             IN  IF codec.status # 0 /\ codec.status # 1
                 THEN [ok |-> FALSE, ca |-> r.ca, packet |-> packet,
                       packet_data |-> <<>>, invoked |-> TRUE,
                       status |-> codec.status, slices |-> r.slices]
                 ELSE IF codec.packets <= 0
                 THEN [ok |-> TRUE, ca |-> r.ca, packet |-> packet,
                       packet_data |-> <<>>, invoked |-> TRUE,
                       status |-> codec.status, slices |-> r.slices]
                 ELSE [ok |-> TRUE,
                       ca |-> [r.ca EXCEPT !.total_samples =
                                  (@ + r.ca.in_bytes_required \div r.ca.in_frame_size) % Modulus],
                       packet |-> [packet EXCEPT
                                  !.pts = packet_pts(r.ca),
                                  !.size = codec.size],
                       packet_data |-> PacketBytes(codec.size),
                       invoked |-> TRUE, status |-> codec.status,
                       slices |-> r.slices]

\* *(*buffer)++ : the byte at offset p of the cookie's buffer
DescrByte(cookie, p) ==
    IF p < Len(cookie.bytes) THEN cookie.bytes[p + 1] ELSE cookie.beyond

RECURSIVE read_descr_len_loop(_, _, _, _)
read_descr_len_loop(cookie, p, len, count) ==
    IF count = 0
    THEN [len |-> len, pos |-> p]
    ELSE LET c == DescrByte(cookie, p)
             l == len * 128 + (c % 128)
         IN  IF c \div 128 = 0
             THEN [len |-> l, pos |-> p + 1]
             ELSE read_descr_len_loop(cookie, p + 1, l, count - 1)

\* a read_descr_len that takes the first byte as the whole size
read_descr_len_one_byte(cookie, p) ==
    [len |-> DescrByte(cookie, p) % 128, pos |-> p + 1]

\* read_descr_len: the size read at offset p and the offset after it
read_descr_len(cookie, p) == read_descr_len_loop(cookie, p, 0, 4)

\* read_descr: the tag at offset p, the size after it, the offset after both
read_descr(cookie, p) ==
    LET d == read_descr_len(cookie, p + 1)
    IN  [tag |-> DescrByte(cookie, p), len |-> d.len, pos |-> d.pos]

\* read_esds_desc_ext: the bytes assigned to the buffer, and the offset
\* after the last byte that was read
read_esds_desc_ext(cookie, version_flags) ==
    LET d1 == read_descr(cookie, IF version_flags THEN 4 ELSE 0)
        p1 == d1.pos + 2 + (IF d1.tag = MP4ESDescrTag THEN 1 ELSE 0)
        d2 == read_descr(cookie, p1)
        d3 == read_descr(cookie, d2.pos + 1 + 1 + 3 + 4 + 4)
    IN  IF d2.tag # MP4DecConfigDescrTag
        THEN [buffer |-> <<>>, extent |-> d2.pos]
        ELSE IF d3.tag # MP4DecSpecificDescrTag
             THEN [buffer |-> <<>>, extent |-> d3.pos]
             ELSE [buffer |-> [i \in 1..d3.len |-> DescrByte(cookie, d3.pos + i - 1)],
                   extent |-> d3.pos + d3.len]

\* query_extra_data reaches read_esds_desc_ext
cookie_fetched(cookie) ==
    /\ cookie.info_status = 0
    /\ cookie.bytes # <<>>
    /\ cookie.get_status = 0
    /\ ~cookie.got_zero

\* query_extra_data reads beyond the buffer it allocated
cookie_overrun(cookie) ==
    /\ cookie_fetched(cookie)
    /\ read_esds_desc_ext(cookie, FALSE).extent > Len(cookie.bytes)

\* a query_extra_data that finds a descriptor in every cookie
query_extra_data_any_cookie(ca, cookie) == [ca EXCEPT !.extra_data = DecoderSpecificInfo]

\* ca.extra_data after query_extra_data
query_extra_data(ca, cookie) ==
    IF cookie_fetched(cookie)
    THEN [ca EXCEPT !.extra_data = read_esds_desc_ext(cookie, FALSE).buffer]
    ELSE ca

(***************************************************************************)
(* State.                                                                  *)
(***************************************************************************)
VARIABLES
    audio,       \* the host's audio output: [channels, samples_per_second]
    hpc,         \* where the host's thread is
    h_settings,  \* aac_create's local encoder_settings (host)
    h_sent,      \* the settings record the host wrote, while aac_create runs
    h_ca,        \* the host's ca_encoder
    h_header,    \* the local header of aac_encode / query_extra_data (host)
    h_ret,       \* the call that returned last and what it returned
    h_failed,    \* an encode call of the session has failed
    wpc,         \* where the co-process is
    w_build,     \* sizeof(settings) and ENCODER_PROC_VERSION of the co-process build
    w_settings,  \* main_internal's local settings, until the loop starts
    w_header,    \* main_internal's local header
    w_payload,   \* main_internal's local payload
    w_exit,      \* the exit code of the co-process, -1 while it runs
    ca,          \* the co-process's ca_encoder
    conv,        \* the converter handles of the co-process
    req,         \* the request pipe: host -> co-process stdin
    data,        \* the data pipe: co-process stdout -> host
    err,         \* the diagnostic pipe: co-process stderr -> host, its unread bytes
    tpc,         \* where stderr_thread_routine is
    t_buf,       \* stderr_thread_routine's local buf
    t_n,         \* what its last read returned, 1 before the first
    blog,        \* the lines the host has logged for the co-process, in order
    hist         \* history of the session, read by the properties only

vars == <<audio, hpc, h_settings, h_sent, h_ca, h_header, h_ret, h_failed,
          wpc, w_build, w_settings, w_header, w_payload, w_exit, ca, conv,
          req, data, err, tpc, t_buf, t_n, blog, hist>>

\* the diagnostic pipe and the thread of the host that reads it
drainVars == <<err, tpc, t_buf, t_n, blog>>
\* what a step of the co-process leaves alone
hostVars == <<audio, hpc, h_settings, h_sent, h_ca, h_header, h_ret, h_failed, drainVars>>
\* what a step of the host's calling thread leaves alone
procVars == <<wpc, w_settings, w_header, w_payload, w_exit, ca, conv, drainVars>>

\* the host's struct ca_encoder with its default member initializers
host_ca_encoder ==
    [out_frames_per_packet |-> 0, encode_buffer |-> <<>>, samples_per_second |-> 0,
     extra_data |-> <<>>, pid |-> -1, fd_req |-> "none", fd_data |-> "none",
     fd_err |-> "none", stderr_thread |-> "none"]

NoReturn ==
    [call |-> "none", ok |-> FALSE, received_packet |-> FALSE, pts |-> 0,
     dts |-> 0, size |-> 0]

Returned(call, ok) == [NoReturn EXCEPT !.call = call, !.ok = ok]

\* the last encode request the co-process handled
NoEncode ==
    [n |-> 0,            \* which encode request it was
     appended |-> 0,     \* bytes in input_buffer once the payload was appended
     invoked |-> FALSE,  \* AudioConverterFillComplexBuffer was called
     status |-> 0,       \* the status it returned
     responses |-> 0,    \* response headers written for the request
     packets |-> 0,      \* packets written for the request
     size |-> 0,         \* size of the response header
     pts |-> 0]          \* pts of the response header

\* the last return of the host's aac_encode
NoEncodeReturn ==
    [n |-> 0,            \* which encode request it answers, 0: none was written
     ok |-> FALSE, received_packet |-> FALSE, pts |-> 0, dts |-> 0]

NoHistory ==
    [calls |-> 0,              \* aac_encode and aac_extra_data calls of the host
     extra_calls |-> 0,        \* aac_extra_data calls of the host
     extra_requests |-> 0,     \* extra-data requests the host wrote
     extra_results |-> <<>>,   \* what each aac_extra_data call returned, in order
     extra_answers |-> <<>>,   \* what the co-process answered each extra-data request
     settings_written |-> 0,   \* settings records the host wrote
     echoes_read |-> 0,        \* echoed settings records the host read
     echo_tags |-> <<0, 0>>,   \* struct_size and proc_version of the record it read
     settings_read |-> 0,      \* settings records the co-process read
     read_tags |-> <<0, 0>>,   \* struct_size and proc_version of the record it read
     echoes_written |-> 0,     \* echoed settings records the co-process wrote
     items_written |-> 0,      \* records and payloads the co-process wrote to stdout
     requests |-> 0,           \* requests (encode, extra data) the host wrote
     responses |-> 0,          \* responses the host read completely
     encode_requests |-> 0,    \* encode requests the host wrote
     headers_read |-> 0,       \* data headers the co-process read
     requests_read |-> 0,      \* requests the co-process read whole
     responses_written |-> 0,  \* response headers the co-process wrote
     encodes_handled |-> 0,    \* encode requests the co-process handled
     encode_responses |-> 0,   \* response headers it wrote for them
     stream |-> 0,             \* bytes of input the host has sent
     accepted |-> 0,           \* payload bytes appended to input_buffer
     slices |-> <<>>,          \* the slices handed to the converter, in order
     codec_calls |-> 0,        \* AudioConverterFillComplexBuffer calls
     emitted |-> 0,            \* packets the co-process has sent
     received |-> 0,           \* packets the host has received
     cookie_queries |-> 0,     \* queries of the converter's magic cookie
     cookie |-> [fetched |-> FALSE, bytes |-> <<>>, size |-> 0, blob |-> <<>>,
                 overrun |-> FALSE, answered |-> FALSE, live |-> FALSE],  \* the last query of the cookie: what the parser got, the answer
     create_fault |-> "",       \* what the converter did in aac_create, "": not run
     diag |-> <<>>,            \* the bytes the co-process has written to stderr
     exit_handled |-> FALSE,   \* the co-process has handled a message with the exit flag
     client_writes |-> 0,      \* records and payloads a client has written
     pipes_left |-> {},        \* descriptors run_proc left open that nothing owns
     fatal_at |-> 0,           \* the first encode request with a fatal status, 0: none
     last_encode |-> NoEncode,
     encode_ret |-> NoEncodeReturn]

\* the builds of the co-process the host may start: the one built with the
\* host, and ones built from another revision of encoder-proc.h
WorkerBuilds ==
    [struct_size : {SizeofEncoderSettings - 4, SizeofEncoderSettings,
                    SizeofEncoderSettings + 4},
     proc_version : {ENCODER_PROC_VERSION, ENCODER_PROC_VERSION + 1}]

\* the host's inputs
Bitrates == {0, 64000, 128000, 512000}
Channels == {2, 3}
OutputSampleRates == {0, 44100}
InputSampleRate == 48000

Init ==
    /\ audio = [channels |-> 0, samples_per_second |-> 0]
    /\ hpc = "start"
    /\ h_settings = NoSettings
    /\ h_sent = NoSettings
    /\ h_ca = host_ca_encoder
    /\ h_header = NoHeader
    /\ h_ret = NoReturn
    /\ h_failed = FALSE
    /\ wpc = "none"
    /\ w_build \in WorkerBuilds
    /\ w_settings = NoSettings
    /\ w_header = NoHeader
    /\ w_payload = <<>>
    /\ w_exit = -1
    /\ ca = ca_encoder
    /\ conv = NoConverters
    /\ req = <<>>
    /\ data = <<>>
    /\ err = <<>>
    /\ tpc = "none"
    /\ t_buf = <<>>
    /\ t_n = 1
    /\ blog = <<>>
    /\ hist = NoHistory

(***************************************************************************)
(* The pipes as each side sees them.                                       *)
(***************************************************************************)
\* stdin of the co-process is at end of file
ReqAtEof == req = <<>> /\ h_ca.fd_req # "open"
\* the host's read of fd_data finds end of file: the co-process has exited
DataAtEof == data = <<>> /\ wpc \in {"none", "exited"}
\* a write of the host to fd_req fails: nobody reads the pipe
ReqBroken == wpc = "exited"
\* a write of the co-process to stdout cannot reach the host
DataBroken == h_ca.fd_data # "open"
\* the host's read of fd_err finds end of file: the co-process has exited
ErrAtEof == err = <<>> /\ wpc = "exited"

CountKind(pipe, kind) == Cardinality({i \in 1..Len(pipe) : pipe[i].kind = kind})

(***************************************************************************)
(* aac-encoder.cc: the host.                                               *)
(***************************************************************************)
\* a destructor that leaves the request descriptor open
host_dtor_close_data_only(hca) == [hca EXCEPT !.fd_data = "closed"]

\* ~ca_encoder up to waitpid: both descriptors are closed
host_dtor_close(hca) == [hca EXCEPT !.fd_req = "closed", !.fd_data = "closed"]

(***************************************************************************)
(* run-proc.c: the three pipes and the fork.                               *)
(***************************************************************************)
\* the two descriptors of each pipe: 0 is its read end, 1 its write end
PipeIn == {"in0", "in1"}
PipeOut == {"out0", "out1"}
PipeErr == {"err0", "err1"}

\* what can fail in run_proc: one of the pipe2 calls, or fork
SpawnFaults == {"none", "pipe_in", "pipe_out", "pipe_err", "fork"}

\* the labels of run_proc: each closes the descriptors of its pipe and falls
\* through to the next
run_proc_fail1(held) == held \ PipeIn

run_proc_fail2(held) == run_proc_fail1(held \ PipeOut)

\* a label fail3 that leaves the diagnostic pipe open
run_proc_fail3_keeps_err(held) == run_proc_fail2(held)

run_proc_fail3(held) == run_proc_fail2(held \ PipeErr)

\* run_proc in the parent: the pid it returns, what it stores in *fd_in,
\* *fd_out and *fd_err ("none": it stores nothing), and the descriptors
\* of its pipes that the parent holds open when it returns
run_proc(fault) ==
    LET failed(held) == [pid |-> -1, fd_in |-> "none", fd_out |-> "none",
                         fd_err |-> "none", held |-> held]
    IN  CASE fault = "pipe_in" -> failed({})
          [] fault = "pipe_out" -> failed(run_proc_fail1(PipeIn))
          [] fault = "pipe_err" -> failed(run_proc_fail2(PipeIn \cup PipeOut))
          [] fault = "fork" -> failed(run_proc_fail3(PipeIn \cup PipeOut \cup PipeErr))
          [] OTHER -> [pid |-> 1, fd_in |-> "open", fd_out |-> "open", fd_err |-> "open",
                       held |-> (PipeIn \cup PipeOut \cup PipeErr) \ {"in0", "out1", "err1"}]

\* aac_create up to start_proc; when start_proc fails the instance is
\* destroyed with what run_proc stored in it
host_aac_create(bitrate, channels, samplerate, allow_he, fault) ==
    /\ hpc = "start"
    /\ audio' = [channels |-> channels, samples_per_second |-> InputSampleRate]
    /\ IF bitrate = 0
       THEN /\ hpc' = "null"
            /\ h_ret' = Returned("create", FALSE)
            /\ UNCHANGED <<h_settings, h_ca, wpc, tpc, hist>>
       ELSE LET r == run_proc(fault)
                owned == IF r.pid < 0 THEN {} ELSE {"in1", "out0", "err0"}
            IN  /\ hist' = [hist EXCEPT !.pipes_left = r.held \ owned]
                /\ IF r.pid < 0
                   THEN /\ hpc' = "null"
                        /\ h_ret' = Returned("create", FALSE)
                        /\ h_ca' = [host_ca_encoder EXCEPT !.pid = r.pid,
                                        !.fd_req = r.fd_in, !.fd_data = r.fd_out,
                                        !.fd_err = r.fd_err]
                        /\ UNCHANGED <<h_settings, wpc, tpc>>
                   ELSE /\ h_settings' = encoder_settings(SizeofEncoderSettings,
                                 ENCODER_PROC_VERSION,
                                 bitrate, channels, InputSampleRate, samplerate,
                                 IF allow_he THEN ENCODER_FLAG_ALLOW_HE_AAC ELSE 0, 0)
                        /\ h_ca' = [host_ca_encoder EXCEPT
                                        !.samples_per_second = InputSampleRate,
                                        !.pid = r.pid, !.fd_req = r.fd_in,
                                        !.fd_data = r.fd_out, !.fd_err = r.fd_err,
                                        !.stderr_thread = "joinable"]
                        /\ hpc' = "create_write"
                        /\ wpc' = "main"
                        /\ tpc' = "running"
                        /\ UNCHANGED h_ret
    /\ UNCHANGED <<h_sent, h_header, h_failed, w_build, w_settings, w_header,
                   w_payload, w_exit, ca, conv, req, data, err, t_buf, t_n, blog>>

\* transfer_encoder_settings: the write
host_transfer_write ==
    /\ hpc = "create_write"
    /\ IF ReqBroken
       THEN /\ hpc' = "dtor_wait"
            /\ h_ca' = host_dtor_close(h_ca)
            /\ h_settings' = NoSettings
            /\ UNCHANGED <<h_sent, req, hist>>
       ELSE /\ req' = Append(req, SettingsItem(h_settings))
            /\ h_sent' = h_settings
            /\ hist' = [hist EXCEPT !.settings_written = @ + 1]
            /\ hpc' = "create_read"
            /\ UNCHANGED <<h_ca, h_settings>>
    /\ UNCHANGED <<audio, h_header, h_ret, h_failed, w_build, data>>
    /\ UNCHANGED procVars

\* a transfer_encoder_settings that does not read the echoed record
host_transfer_read_skipped ==
    /\ hpc = "create_read"
    /\ hpc' = "create_return"
    /\ UNCHANGED <<audio, h_settings, h_sent, h_ca, h_header, h_ret, h_failed,
                   w_build, req, data, hist>>
    /\ UNCHANGED procVars

\* transfer_encoder_settings: the read of the echoed record
host_transfer_read ==
    /\ hpc = "create_read"
    /\ data # <<>> \/ DataAtEof
    /\ IF data # <<>> /\ Head(data).kind = "settings"
       THEN /\ h_settings' = Head(data).rec
            /\ data' = Tail(data)
            /\ hist' = [hist EXCEPT !.echoes_read = @ + 1,
                           !.echo_tags = <<Head(data).rec.struct_size,
                                           Head(data).rec.proc_version>>]
            /\ hpc' = "create_return"
            /\ UNCHANGED <<h_ca, h_sent>>
       ELSE /\ hpc' = "dtor_wait"
            /\ h_ca' = host_dtor_close(h_ca)
            /\ h_settings' = NoSettings
            /\ h_sent' = NoSettings
            /\ UNCHANGED <<data, hist>>
    /\ UNCHANGED <<audio, h_header, h_ret, h_failed, w_build, req>>
    /\ UNCHANGED procVars

\* aac_create after transfer_encoder_settings: the session is returned
host_aac_create_return ==
    /\ hpc = "create_return"
    /\ h_ca' = [h_ca EXCEPT !.out_frames_per_packet = h_settings.out_frames_per_packet]
    /\ h_settings' = NoSettings
    /\ h_sent' = NoSettings
    /\ h_ret' = Returned("create", TRUE)
    /\ hpc' = "ready"
    /\ UNCHANGED <<audio, h_header, h_failed, w_build, req, data, hist>>
    /\ UNCHANGED procVars

\* write_header_data of the host: the pipe after it, or the pipe unchanged
\* when the write of the header fails
host_write_header_data(header, bytes) ==
    IF ReqBroken THEN req
    ELSE IF header.size # 0
         THEN req \o <<HeaderItem(header), PayloadItem(SubSeq(bytes, 1, header.size))>>
         ELSE Append(req, HeaderItem(header))

\* the bytes of the next frames of the input stream: byte i of the stream is i
StreamBytes(n) == [i \in 1..n |-> hist.stream + i]

\* what aac_encode returns with a packet
host_packet(header) ==
    [ok |-> TRUE, received_packet |-> TRUE, pts |-> header.pts, dts |-> header.pts]

\* a frame whose first plane holds one channel only
frame_linesize_planar(frames, channels) == frames * SizeofFloat

\* frame->linesize[0] of a frame in AUDIO_FORMAT_FLOAT, what aac_audio_info
\* asks for: the samples of all channels interleaved
frame_linesize(frames, channels) == frames * SizeofFloat * channels

\* aac_encode up to the read of the response header
host_aac_encode(frames) ==
    /\ hpc = "ready"
    /\ ~h_failed
    /\ hist.calls < MaxCalls
    /\ LET linesize == frame_linesize(frames, audio.channels)
           header == encoder_data_header(linesize, 1,
                         hist.stream \div (SizeofFloat * audio.channels),
                         ENCODER_FLAG_QUERY_ENCODE)
       IN  IF ReqBroken
           THEN /\ h_ret' = Returned("encode", FALSE)
                /\ h_failed' = TRUE
                /\ hist' = [hist EXCEPT !.calls = @ + 1,
                                        !.encode_ret = NoEncodeReturn]
                /\ UNCHANGED <<hpc, h_header, req>>
           ELSE /\ req' = host_write_header_data(header, StreamBytes(linesize))
                /\ h_header' = header
                /\ hpc' = "encode_read_header"
                /\ hist' = [hist EXCEPT !.calls = @ + 1,
                                        !.requests = @ + 1,
                                        !.encode_requests = @ + 1,
                                        !.stream = @ + linesize]
                /\ UNCHANGED <<h_ret, h_failed>>
    /\ UNCHANGED <<audio, h_settings, h_sent, h_ca, w_build, data>>
    /\ UNCHANGED procVars

\* aac_encode: the read of the response header
host_aac_encode_read_header ==
    /\ hpc = "encode_read_header"
    /\ data # <<>> \/ DataAtEof
    /\ IF data # <<>> /\ Head(data).kind = "header"
       THEN /\ h_header' = Head(data).hdr
            /\ data' = Tail(data)
            /\ IF Head(data).hdr.size = 0
               THEN /\ h_ret' = Returned("encode", TRUE)
                    /\ hpc' = "ready"
                    /\ hist' = [hist EXCEPT !.responses = @ + 1,
                                   !.encode_ret = [NoEncodeReturn EXCEPT
                                       !.n = hist.encode_requests, !.ok = TRUE]]
               ELSE /\ hpc' = "encode_read_data"
                    /\ UNCHANGED <<h_ret, hist>>
            /\ UNCHANGED h_failed
       ELSE /\ h_ret' = Returned("encode", FALSE)
            /\ h_failed' = TRUE
            /\ hpc' = "ready"
            /\ hist' = [hist EXCEPT !.encode_ret =
                           [NoEncodeReturn EXCEPT !.n = hist.encode_requests]]
            /\ UNCHANGED <<h_header, data>>
    /\ UNCHANGED <<audio, h_settings, h_sent, h_ca, w_build, req>>
    /\ UNCHANGED procVars

\* aac_encode: the read of the packet and the return
host_aac_encode_read_data ==
    /\ hpc = "encode_read_data"
    /\ data # <<>> \/ DataAtEof
    /\ IF data # <<>> /\ Head(data).kind = "payload"
                      /\ Len(Head(data).bytes) = h_header.size
       THEN /\ h_ca' = [h_ca EXCEPT !.encode_buffer = Head(data).bytes]
            /\ data' = Tail(data)
            /\ LET p == host_packet(h_header)
               IN  /\ h_ret' = [call |-> "encode", ok |-> p.ok,
                                received_packet |-> p.received_packet,
                                pts |-> p.pts, dts |-> p.dts, size |-> h_header.size]
                   /\ hist' = [hist EXCEPT !.responses = @ + 1, !.received = @ + 1,
                                  !.encode_ret = [n |-> hist.encode_requests, ok |-> p.ok,
                                                  received_packet |-> p.received_packet,
                                                  pts |-> p.pts, dts |-> p.dts]]
            /\ UNCHANGED h_failed
       ELSE /\ h_ca' = [h_ca EXCEPT !.encode_buffer = PacketBytes(h_header.size)]
            /\ h_ret' = Returned("encode", FALSE)
            /\ h_failed' = TRUE
            /\ hist' = [hist EXCEPT !.encode_ret =
                           [NoEncodeReturn EXCEPT !.n = hist.encode_requests]]
            /\ UNCHANGED data
    /\ hpc' = "ready"
    /\ UNCHANGED <<audio, h_settings, h_sent, h_header, w_build, req>>
    /\ UNCHANGED procVars

\* an aac_extra_data that asks the co-process on every call
host_extra_data_never_cached(hca) == FALSE

\* aac_extra_data: the blob is cached, query_extra_data is not called
host_extra_data_cached(hca) == hca.extra_data # <<>>

\* aac_extra_data: what it returns, with the requests and cookie queries so far
host_extra_result(hca, requests) ==
    [ok |-> hca.extra_data # <<>>, blob |-> hca.extra_data,
     requests |-> requests, queries |-> hist.cookie_queries]

\* aac_extra_data with a cached blob: no request is sent
host_aac_extra_data_cached ==
    /\ hpc = "ready"
    /\ host_extra_data_cached(h_ca)
    /\ hist.calls < MaxCalls
    /\ h_ret' = [Returned("extra_data", h_ca.extra_data # <<>>) EXCEPT
                     !.size = Len(h_ca.extra_data)]
    /\ hist' = [hist EXCEPT !.calls = @ + 1, !.extra_calls = @ + 1,
                   !.extra_results = Append(@, host_extra_result(h_ca, hist.extra_requests))]
    /\ UNCHANGED <<audio, hpc, h_settings, h_sent, h_ca, h_header, h_failed,
                   w_build, req, data>>
    /\ UNCHANGED procVars

\* aac_extra_data without a cached blob: query_extra_data up to its read
host_query_extra_data ==
    /\ hpc = "ready"
    /\ ~host_extra_data_cached(h_ca)
    /\ hist.calls < MaxCalls
    /\ LET header == encoder_data_header(0, 0, 0, ENCODER_FLAG_QUERY_EXTRA_DATA)
       IN  IF ReqBroken
           THEN /\ h_ret' = Returned("extra_data", h_ca.extra_data # <<>>)
                /\ hist' = [hist EXCEPT !.calls = @ + 1, !.extra_calls = @ + 1,
                               !.extra_results =
                                   Append(@, host_extra_result(h_ca, hist.extra_requests))]
                /\ UNCHANGED <<hpc, h_header, req>>
           ELSE /\ req' = host_write_header_data(header, <<>>)
                /\ h_header' = header
                /\ hpc' = "extra_read_header"
                /\ hist' = [hist EXCEPT !.calls = @ + 1, !.requests = @ + 1,
                                        !.extra_calls = @ + 1,
                                        !.extra_requests = @ + 1]
                /\ UNCHANGED h_ret
    /\ UNCHANGED <<audio, h_settings, h_sent, h_ca, h_failed, w_build, data>>
    /\ UNCHANGED procVars

\* query_extra_data: the read of the response header
host_query_extra_data_read_header ==
    /\ hpc = "extra_read_header"
    /\ data # <<>> \/ DataAtEof
    /\ IF data # <<>> /\ Head(data).kind = "header"
       THEN /\ h_header' = Head(data).hdr
            /\ data' = Tail(data)
            /\ IF Head(data).hdr.size = 0
               THEN /\ h_ret' = Returned("extra_data", h_ca.extra_data # <<>>)
                    /\ hpc' = "ready"
                    /\ hist' = [hist EXCEPT !.responses = @ + 1,
                                   !.extra_results =
                                       Append(@, host_extra_result(h_ca, hist.extra_requests))]
               ELSE /\ hpc' = "extra_read_data"
                    /\ UNCHANGED <<h_ret, hist>>
       ELSE /\ h_ret' = Returned("extra_data", h_ca.extra_data # <<>>)
            /\ hpc' = "ready"
            /\ hist' = [hist EXCEPT !.extra_results =
                           Append(@, host_extra_result(h_ca, hist.extra_requests))]
            /\ UNCHANGED <<h_header, data>>
    /\ UNCHANGED <<audio, h_settings, h_sent, h_ca, h_failed, w_build, req>>
    /\ UNCHANGED procVars

\* query_extra_data: the read of the blob, and aac_extra_data's return
host_query_extra_data_read_data ==
    /\ hpc = "extra_read_data"
    /\ data # <<>> \/ DataAtEof
    /\ IF data # <<>> /\ Head(data).kind = "payload"
                      /\ Len(Head(data).bytes) = h_header.size
       THEN /\ h_ca' = [h_ca EXCEPT !.extra_data = Head(data).bytes]
            /\ data' = Tail(data)
            /\ hist' = [hist EXCEPT !.responses = @ + 1,
                           !.extra_results =
                               Append(@, host_extra_result(h_ca', hist.extra_requests))]
       ELSE /\ h_ca' = [h_ca EXCEPT !.extra_data = PacketBytes(h_header.size)]
            /\ hist' = [hist EXCEPT !.extra_results =
                           Append(@, host_extra_result(h_ca', hist.extra_requests))]
            /\ UNCHANGED data
    /\ h_ret' = [Returned("extra_data", h_header.size # 0) EXCEPT !.size = h_header.size]
    /\ hpc' = "ready"
    /\ UNCHANGED <<audio, h_settings, h_sent, h_header, h_failed, w_build, req>>
    /\ UNCHANGED procVars

\* aac_destroy: ~ca_encoder up to waitpid
host_aac_destroy ==
    /\ hpc = "ready"
    /\ h_ca' = host_dtor_close(h_ca)
    /\ hpc' = "dtor_wait"
    /\ UNCHANGED <<audio, h_settings, h_sent, h_header, h_ret, h_failed, w_build,
                   req, data, hist>>
    /\ UNCHANGED procVars

\* ~ca_encoder: waitpid returns
host_dtor_wait ==
    /\ hpc = "dtor_wait"
    /\ wpc = "exited"
    /\ h_ca' = [h_ca EXCEPT !.pid = -1]
    /\ hpc' = "dtor_join"
    /\ UNCHANGED <<audio, h_settings, h_sent, h_header, h_ret, h_failed, w_build, req,
                   data, hist>>
    /\ UNCHANGED procVars

\* a join that does not wait for the thread
join_returns_at_once(t) == TRUE

\* std::thread::join returns when the thread's routine has returned
join_returns(t) == t = "ended"

\* ~ca_encoder: stderr_thread.join() returns and fd_err is closed; a failed
\* aac_create returns NULL after it
host_dtor_join ==
    /\ hpc = "dtor_join"
    /\ h_ca.stderr_thread = "joinable"
    /\ join_returns(tpc)
    /\ h_ca' = [h_ca EXCEPT !.stderr_thread = "joined", !.fd_err = "closed"]
    /\ IF h_ret.call = "none"
       THEN /\ hpc' = "null"
            /\ h_ret' = Returned("create", FALSE)
       ELSE /\ hpc' = "destroyed"
            /\ UNCHANGED h_ret
    /\ UNCHANGED <<audio, h_settings, h_sent, h_header, h_failed, w_build, req,
                   data, hist>>
    /\ UNCHANGED procVars

(***************************************************************************)
(* aac-encoder.cc: the thread that reads the co-process's stderr.          *)
(***************************************************************************)
\* what "%s" prints of a buffer: the bytes before its first NUL
RECURSIVE CString(_)
CString(bytes) ==
    IF bytes = <<>> \/ Head(bytes) = 0 THEN <<>>
    ELSE <<Head(bytes)>> \o CString(Tail(bytes))

\* the for loop: every '\n' ends a line that is logged from start; start
\* counts the bytes before the next line
RECURSIVE stderr_scan(_, _, _, _)
stderr_scan(buf, i, start, lines) ==
    IF i > Len(buf) THEN [lines |-> lines, start |-> start]
    ELSE IF buf[i] = NewLine
         THEN stderr_scan(buf, i + 1, i,
                          Append(lines, CString(SubSeq(buf, start + 1, i - 1) \o <<0>>)))
         ELSE stderr_scan(buf, i + 1, start, lines)

\* a loop that keeps the lines it has logged in buf
stderr_erase_nothing(buf, start) == buf

\* buf.erase(buf.begin(), buf.begin() + start)
stderr_erase(buf, start) == SubSeq(buf, start + 1, Len(buf))

\* one turn of the loop of stderr_thread_routine; n is what read returns:
\* the bytes it got, 0 at end of file, -1 when it fails
stderr_thread_routine(n) ==
    /\ tpc = "running"
    /\ n > 0 => n <= Len(err) /\ n <= ReadSize
    /\ n = 0 => ErrAtEof
    /\ LET buf == IF n >= 0 THEN t_buf \o SubSeq(err, 1, n)
                  ELSE t_buf \o [i \in 1..ReadSize |-> 0]
           scanned == stderr_scan(buf, 1, 0, <<>>)
       IN /\ blog' = blog \o scanned.lines
          /\ t_buf' = stderr_erase(buf, scanned.start)
    /\ err' = IF n > 0 THEN SubSeq(err, n + 1, Len(err)) ELSE err
    /\ t_n' = n
    /\ tpc' = IF n <= 0 THEN "ended" ELSE "running"
    /\ UNCHANGED <<audio, hpc, h_settings, h_sent, h_ca, h_header, h_ret, h_failed,
                   wpc, w_build, w_settings, w_header, w_payload, w_exit, ca, conv,
                   req, data, hist>>
(***************************************************************************)
(* encoder-proc.cc: main and main_internal of the co-process.              *)
(***************************************************************************)
\* main: load_core_audio fails and the co-process returns 1
proc_main_load_fails ==
    /\ wpc = "main"
    /\ wpc' = "exited"
    /\ w_exit' = 1
    /\ UNCHANGED <<w_settings, w_header, w_payload, ca, conv, w_build, req, data, hist>>
    /\ UNCHANGED hostVars

\* a main_internal that compares the size of the record only
settings_mismatch_size_only(settings, build) ==
    settings.struct_size # build.struct_size

\* main_internal: the two comparisons of the record that was read
settings_mismatch(settings, build) ==
    \/ settings.struct_size # build.struct_size
    \/ settings.proc_version # build.proc_version

\* main_internal: fread of the settings record and its two checks.  A build
\* whose record is longer than the one in the pipe waits for more bytes and
\* reads short at end of file.
proc_read_settings ==
    /\ wpc = "main"
    /\ \/ req # <<>> /\ (w_build.struct_size <= SizeofEncoderSettings \/ h_ca.fd_req # "open")
       \/ ReqAtEof
    /\ IF req # <<>> /\ Head(req).kind = "settings"
                     /\ w_build.struct_size <= SizeofEncoderSettings
       THEN /\ req' = Tail(req)
            /\ hist' = [hist EXCEPT !.settings_read = @ + 1,
                           !.read_tags = <<Head(req).rec.struct_size,
                                           Head(req).rec.proc_version>>]
            /\ IF settings_mismatch(Head(req).rec, w_build)
               THEN /\ wpc' = "exited"
                    /\ w_exit' = 1
                    /\ UNCHANGED w_settings
               ELSE /\ wpc' = "create"
                    /\ w_settings' = Head(req).rec
                    /\ UNCHANGED w_exit
       ELSE /\ req' = IF req # <<>> THEN Tail(req) ELSE req
            /\ wpc' = "exited"
            /\ w_exit' = 1
            /\ UNCHANGED <<w_settings, hist>>
    /\ UNCHANGED <<w_header, w_payload, ca, conv, w_build, data>>
    /\ UNCHANGED hostVars

\* a main_internal that writes the record back as it came
echo_settings_unset(settings, enc) == settings

\* main_internal: the record written back to the host
echo_settings(settings, enc) ==
    [settings EXCEPT !.out_frames_per_packet = enc.out_frames_per_packet]

\* main_internal: aac_create and the echo of the settings
proc_create(fault, written) ==
    /\ wpc = "create"
    /\ written \/ DataBroken
    /\ LET r == aac_create(w_settings, conv, fault)
       IN  IF ~r.ok
           THEN /\ wpc' = "exited"
                /\ w_exit' = 1
                /\ conv' = r.conv
                /\ hist' = [hist EXCEPT !.create_fault = fault]
                /\ UNCHANGED <<ca, data>>
           ELSE /\ ca' = r.ca
                /\ conv' = r.conv
                /\ IF written
                   THEN /\ wpc' = "loop"
                        /\ UNCHANGED w_exit
                        /\ data' = IF DataBroken THEN data
                                   ELSE Append(data, SettingsItem(echo_settings(w_settings, r.ca)))
                        /\ hist' = [hist EXCEPT !.create_fault = fault,
                                       !.echoes_written = @ + 1,
                                       !.items_written = @ + Len(data') - Len(data)]
                   ELSE /\ wpc' = "exited"
                        /\ w_exit' = 1
                        /\ hist' = [hist EXCEPT !.create_fault = fault]
                        /\ UNCHANGED data
    /\ w_settings' = NoSettings
    /\ UNCHANGED <<w_header, w_payload, w_build, req>>
    /\ UNCHANGED hostVars

\* main_internal after the loop: aac_destroy and return 0
proc_leave_loop ==
    /\ conv' = ca_encoder_dtor(ca, conv)
    /\ ca' = ca_encoder
    /\ wpc' = "exited"
    /\ w_exit' = 0

\* a loop that goes on after a message with the exit flag
loop_ignores_exit(header) == TRUE

\* main_internal: the condition of the for loop
loop_continues(header) == ~HasFlag(header.flags, ENCODER_FLAG_EXIT)

\* payload.resize(n): the elements kept, new ones zero
Resize(buf, n) == [i \in 1..n |-> IF i <= Len(buf) THEN buf[i] ELSE 0]

\* a main_internal that never reads a payload
payload_never_follows(header) == FALSE

\* main_internal: a payload is read after the header
payload_follows(header) == header.size # 0

\* main_internal: fread of a data header
proc_read_header ==
    /\ wpc = "loop"
    /\ req # <<>> \/ ReqAtEof
    /\ IF req # <<>> /\ Head(req).kind = "header"
       THEN /\ w_header' = Head(req).hdr
            /\ w_payload' = Resize(w_payload, Head(req).hdr.size)
            /\ req' = Tail(req)
            /\ wpc' = IF payload_follows(Head(req).hdr) THEN "payload" ELSE "process"
            /\ hist' = [hist EXCEPT !.headers_read = @ + 1,
                           !.requests_read = IF Head(req).hdr.size = 0 THEN @ + 1 ELSE @]
            /\ UNCHANGED <<w_exit, ca, conv>>
       ELSE /\ proc_leave_loop
            /\ req' = IF req # <<>> THEN Tail(req) ELSE req
            /\ UNCHANGED <<w_header, w_payload, hist>>
    /\ UNCHANGED <<w_settings, w_build, data>>
    /\ UNCHANGED hostVars

\* an fread that takes the bytes it got for the payload
payload_read_any(item, header) == TRUE

\* main_internal: fread(payload.data(), header.size, 1, stdin) returns 1
payload_read_whole(item, header) == Len(item.bytes) = header.size

\* main_internal: fread of the payload
proc_read_payload ==
    /\ wpc = "payload"
    /\ req # <<>> \/ ReqAtEof
    /\ IF req # <<>> /\ Head(req).kind = "payload"
                     /\ payload_read_whole(Head(req), w_header)
       THEN /\ w_payload' = Head(req).bytes
            /\ req' = Tail(req)
            /\ wpc' = "process"
            /\ hist' = [hist EXCEPT !.requests_read = @ + 1]
            /\ UNCHANGED <<w_exit, ca, conv>>
       ELSE /\ proc_leave_loop
            /\ req' = IF req # <<>> THEN Tail(req) ELSE req
            /\ UNCHANGED <<w_payload, hist>>
    /\ UNCHANGED <<w_settings, w_header, w_build, data>>
    /\ UNCHANGED hostVars

\* a write_header_data that writes nothing for an empty response
proc_write_header_data_skip_empty(pipe, header, bytes) ==
    IF DataBroken \/ header.size = 0 THEN pipe
    ELSE pipe \o <<HeaderItem(header), PayloadItem(SubSeq(bytes, 1, header.size))>>

\* write_header_data of the co-process: stdout after it
proc_write_header_data(pipe, header, bytes) ==
    IF DataBroken THEN pipe
    ELSE IF header.size # 0
         THEN pipe \o <<HeaderItem(header), PayloadItem(SubSeq(bytes, 1, header.size))>>
         ELSE Append(pipe, HeaderItem(header))

\* the converter is not called, the cookie is not queried
NoCodec == [pulls |-> 0, status |-> 0, packets |-> 0, size |-> CodecMaximumOutputPacketSize]
NoCookie == CookieZeroSize

\* main_internal: one pass of the loop body after the request was read
proc_process(codec, cookie, wrote1, wrote2) ==
    /\ wpc = "process"
    /\ LET is_encode == HasFlag(w_header.flags, ENCODER_FLAG_QUERY_ENCODE)
           is_extra == HasFlag(w_header.flags, ENCODER_FLAG_QUERY_EXTRA_DATA)
           is_exit == HasFlag(w_header.flags, ENCODER_FLAG_EXIT)
           fills == is_encode /\ Len(ca.input_buffer) + w_header.size >= ca.in_bytes_required
       IN
       /\ wrote1 \/ (is_encode /\ DataBroken)
       /\ wrote2 \/ (is_extra /\ DataBroken /\ wrote1)
       /\ IF fills THEN codec # NoCodec ELSE codec = NoCodec
       /\ LET packet_header == [NoHeader EXCEPT !.flags = ENCODER_FLAG_QUERY_ENCODE]
              e == IF is_encode
                   THEN aac_encode(ca, w_header, w_payload, packet_header, codec)
                   ELSE [ok |-> TRUE, ca |-> ca, packet |-> packet_header,
                         packet_data |-> <<>>, invoked |-> FALSE, status |-> 0,
                         slices |-> <<>>]
              data1 == IF is_encode /\ wrote1
                       THEN proc_write_header_data(data, e.packet, e.packet_data)
                       ELSE data
              answers == is_extra /\ wrote1
              queries == answers /\ e.ca.extra_data = <<>>
              ca2 == IF queries THEN query_extra_data(e.ca, cookie) ELSE e.ca
              header == [NoHeader EXCEPT !.size = Len(ca2.extra_data),
                                         !.flags = ENCODER_FLAG_QUERY_EXTRA_DATA]
              trapped == queries /\ cookie_overrun(cookie) /\ cookie.beyond = Trap
              data2 == IF answers /\ wrote2 /\ ~trapped
                       THEN proc_write_header_data(data1, header, ca2.extra_data)
                       ELSE data1
              leaves == ~wrote1 \/ ~wrote2 \/ ~loop_continues(w_header)
              hdr1 == CountKind(data1, "header") - CountKind(data, "header")
              pk1 == CountKind(data1, "payload") - CountKind(data, "payload")
              hdr2 == CountKind(data2, "header") - CountKind(data1, "header")
          IN  /\ fills => CodecCanBehave([ca EXCEPT !.input_buffer = @ \o w_payload], codec)
              /\ IF queries THEN TRUE ELSE cookie = NoCookie
              /\ data' = data2
              /\ IF trapped
                 THEN /\ ca' = e.ca
                      /\ wpc' = "exited"
                      /\ w_exit' = 128 + 11
                      /\ UNCHANGED conv
                 ELSE IF leaves
                 THEN /\ conv' = ca_encoder_dtor(ca2, conv)
                      /\ ca' = ca_encoder
                      /\ wpc' = "exited"
                      /\ w_exit' = 0
                 ELSE /\ ca' = ca2
                      /\ wpc' = "loop"
                      /\ UNCHANGED <<conv, w_exit>>
              /\ hist' = [hist EXCEPT
                     !.responses_written = @ + hdr1 + hdr2,
                     !.items_written = @ + Len(data2) - Len(data),
                     !.encodes_handled = IF is_encode THEN @ + 1 ELSE @,
                     !.exit_handled = @ \/ is_exit,
                     !.encode_responses = @ + hdr1,
                     !.accepted = IF is_encode THEN @ + w_header.size ELSE @,
                     !.slices = @ \o e.slices,
                     !.codec_calls = IF e.invoked THEN @ + 1 ELSE @,
                     !.emitted = @ + pk1,
                     !.cookie_queries = IF queries THEN @ + 1 ELSE @,
                     !.extra_answers = IF answers /\ wrote2 /\ ~trapped
                         THEN Append(@, [blob |-> ca2.extra_data,
                                         queries |-> hist.cookie_queries
                                                     + IF queries THEN 1 ELSE 0])
                         ELSE @,
                     !.cookie = IF queries
                         THEN [fetched |-> cookie_fetched(cookie),
                               bytes |-> IF cookie_fetched(cookie)
                                         THEN cookie.bytes ELSE <<>>,
                               size |-> header.size,
                               blob |-> ca2.extra_data,
                               overrun |-> cookie_overrun(cookie),
                               answered |-> wrote2 /\ ~trapped,
                               live |-> ~leaves /\ ~trapped]
                         ELSE @,
                     !.fatal_at = IF @ = 0 /\ e.invoked /\ e.status # 0
                                            /\ e.status # StatusStarved
                                  THEN hist.encodes_handled + 1 ELSE @,
                     !.last_encode = IF is_encode
                         THEN [n |-> hist.encodes_handled + 1,
                               appended |-> Len(ca.input_buffer) + w_header.size,
                               invoked |-> e.invoked, status |-> e.status,
                               responses |-> hdr1, packets |-> pk1,
                               size |-> e.packet.size, pts |-> e.packet.pts]
                         ELSE @]
    /\ UNCHANGED <<w_settings, w_header, w_payload, w_build, req>>
    /\ UNCHANGED hostVars

\* CA_LOG: fprintf(stderr, ...) puts bytes into the diagnostic pipe; the
\* co-process logs in main, in aac_create and while it handles a request,
\* not while it is blocked in fread
proc_diag(bytes) ==
    /\ wpc \in {"main", "create", "process"}
    /\ Len(hist.diag) + Len(bytes) <= MaxDiag
    /\ err' = err \o bytes
    /\ hist' = [hist EXCEPT !.diag = @ \o bytes]
    /\ UNCHANGED <<audio, hpc, h_settings, h_sent, h_ca, h_header, h_ret, h_failed,
                   wpc, w_build, w_settings, w_header, w_payload, w_exit, ca, conv,
                   req, data, tpc, t_buf, t_n, blog>>

(***************************************************************************)
(* The session: the host and the co-process it starts.                     *)
(***************************************************************************)
\* the thread's read at the end of a session without diagnostics, taken when
\* the destructor waits for it: nothing else reads what the thread writes, so
\* the step commutes with every step before the join
stderr_thread_closed == hpc = "dtor_join" /\ stderr_thread_routine(0)

HostCreate ==
    /\ hpc = "start"
    /\ \E bitrate \in Bitrates, channels \in Channels, samplerate \in OutputSampleRates,
       allow_he \in BOOLEAN, fault \in SpawnFaults :
        host_aac_create(bitrate, channels, samplerate, allow_he, fault)

\* the frames of one encode call: one, a packet's worth (what aac_frame_size
\* tells the host to send), the most
FrameCounts == {1, h_ca.out_frames_per_packet, MaxFrames}

HostEncode == hpc = "ready" /\ \E frames \in FrameCounts : host_aac_encode(frames)

ProcCreate ==
    /\ wpc = "create"
    /\ \E fault \in CodecFaults, written \in BOOLEAN : proc_create(fault, written)

\* the converter and the cookie answer only when they are asked; a write to
\* stdout can fail only when the host has closed its end
ProcProcess ==
    /\ wpc = "process"
    /\ \E codec \in IF HasFlag(w_header.flags, ENCODER_FLAG_QUERY_ENCODE)
                       /\ Len(ca.input_buffer) + w_header.size >= ca.in_bytes_required
                    THEN CodecBehaviours ELSE {NoCodec},
          cookie \in IF ~HasFlag(w_header.flags, ENCODER_FLAG_QUERY_EXTRA_DATA)
                        \/ ca.extra_data # <<>>
                     THEN {NoCookie}
                     ELSE IF hist.cookie_queries = 0 THEN CookieOutcomes
                     ELSE {CookieZeroSize, CookieDescriptor},
          wrote1 \in IF DataBroken THEN BOOLEAN ELSE {TRUE},
          wrote2 \in IF DataBroken THEN BOOLEAN ELSE {TRUE} :
           proc_process(codec, cookie, wrote1, wrote2)

Next ==
    \/ HostCreate
    \/ host_transfer_write
    \/ host_transfer_read
    \/ host_aac_create_return
    \/ HostEncode
    \/ host_aac_encode_read_header
    \/ host_aac_encode_read_data
    \/ host_aac_extra_data_cached
    \/ host_query_extra_data
    \/ host_query_extra_data_read_header
    \/ host_query_extra_data_read_data
    \/ host_aac_destroy
    \/ host_dtor_wait
    \/ host_dtor_join
    \/ stderr_thread_closed
    \/ proc_main_load_fails
    \/ proc_read_settings
    \/ ProcCreate
    \/ proc_read_header
    \/ proc_read_payload
    \/ ProcProcess

Spec == Init /\ [][Next]_vars
(***************************************************************************)
(* One session that asks for the extra data, with the cookies the parser   *)
(* can be given: whole trees, trees cut short, trees with other tags.      *)
(***************************************************************************)
OuterTags == {MP4ESDescrTag, 1}
WrapperTags == {MP4DecConfigDescrTag, 6}
NestedTags == {MP4DecSpecificDescrTag, 6}
SizeWidths == 1..4
Payloads == {<<170, 187, 204>>, DecoderSpecificInfo}
BeyondBytes == {0, MP4DecSpecificDescrTag, Trap}

EsdsTrees ==
    {EsdsTree(t1, t2, t3, k, payload) :
        t1 \in OuterTags, t2 \in WrapperTags, t3 \in NestedTags,
        k \in SizeWidths, payload \in Payloads}

WrapperTrees == {WrapperTree(k, payload) : k \in SizeWidths, payload \in Payloads}

Prefix(bytes, n) == SubSeq(bytes, 1, n)

\* every tree and every prefix of it, with each content of the memory behind
StudyCookies ==
    UNION {{Cookie(0, Prefix(tree, n), 0, FALSE, beyond) :
                n \in 0..Len(tree), beyond \in BeyondBytes} :
           tree \in EsdsTrees \cup WrapperTrees}

CookieHostCreate == host_aac_create(128000, 2, 44100, FALSE, "none")

CookieProcCreate == proc_create("none", TRUE)

\* the first query of the session finds any of the cookies
CookieProcProcess ==
    /\ wpc = "process"
    /\ \E cookie \in IF ca.extra_data # <<>> THEN {NoCookie}
                      ELSE IF hist.cookie_queries = 0 THEN StudyCookies
                      ELSE {CookieZeroSize, CookieDescriptor} :
           proc_process(NoCodec, cookie, TRUE, TRUE)

NextCookie ==
    \/ CookieHostCreate
    \/ host_transfer_write
    \/ host_transfer_read
    \/ host_aac_create_return
    \/ host_aac_extra_data_cached
    \/ host_query_extra_data
    \/ host_query_extra_data_read_header
    \/ host_query_extra_data_read_data
    \/ proc_read_settings
    \/ CookieProcCreate
    \/ proc_read_header
    \/ CookieProcProcess

CookieSpec == Init /\ [][NextCookie]_vars

(***************************************************************************)
(* The creation of a session and its end, with more bitrates and output    *)
(* sample rates, and a converter that packs its input.                     *)
(***************************************************************************)
StudyBitrates == {0, 64000, 95000, 96000, 128000, 160000, 161000, 512000}
StudySampleRates == {0, 32000, 44100}
\* the channel counts of the speaker layouts of the host, and 7
StudyChannels == 1..8

CreateHostCreate ==
    \E bitrate \in StudyBitrates, channels \in StudyChannels,
       samplerate \in StudySampleRates, allow_he \in BOOLEAN :
        host_aac_create(bitrate, channels, samplerate, allow_he, "none")

CreateProcCreate ==
    \E fault \in CodecFaults \cup {"in_frames"}, written \in BOOLEAN :
        proc_create(fault, written)

NextCreate ==
    \/ CreateHostCreate
    \/ host_transfer_write
    \/ host_transfer_read
    \/ host_aac_create_return
    \/ host_aac_destroy
    \/ host_dtor_wait
    \/ host_dtor_join
    \/ stderr_thread_closed
    \/ proc_read_settings
    \/ CreateProcCreate
    \/ proc_read_header

CreateSpec == Init /\ [][NextCreate]_vars

(***************************************************************************)
(* The host with any program at the other end of its pipes: start_proc     *)
(* runs whatever executable the module path holds.                         *)
(***************************************************************************)
\* items the peer can have in the data pipe at once
MaxPeerItems == 1

\* what the peer can write: settings records of the host's length with the
\* host's version or another, data headers, a packet
PeerItems ==
    {SettingsItem(encoder_settings(SizeofEncoderSettings, v, 64000, 2, InputSampleRate,
                                   0, 0, CodecOutFramesPerPacket(AAC))) :
        v \in {ENCODER_PROC_VERSION, ENCODER_PROC_VERSION + 1}}
    \cup {HeaderItem(encoder_data_header(sz, 0, 0, ENCODER_FLAG_QUERY_ENCODE)) :
        sz \in {0, CodecMaximumOutputPacketSize}}
    \cup {PayloadItem(PacketBytes(CodecMaximumOutputPacketSize))}

peer_write(item) ==
    /\ wpc = "main"
    /\ h_ca.fd_data = "open"
    /\ Len(data) < MaxPeerItems
    /\ data' = Append(data, item)
    /\ UNCHANGED <<w_build, req, hist>>
    /\ UNCHANGED hostVars
    /\ UNCHANGED procVars

peer_read ==
    /\ wpc = "main"
    /\ req # <<>>
    /\ req' = Tail(req)
    /\ UNCHANGED <<w_build, data, hist>>
    /\ UNCHANGED hostVars
    /\ UNCHANGED procVars

peer_exit ==
    /\ wpc = "main"
    /\ wpc' = "exited"
    /\ w_exit' = 0
    /\ UNCHANGED <<w_settings, w_header, w_payload, ca, conv, w_build, req, data, hist>>
    /\ UNCHANGED hostVars

PeerWrite == \E item \in PeerItems : peer_write(item)

\* the host's calls with a peer: stereo at 64 kbit/s, no frame or one
PeerHostCreate ==
    \E bitrate \in {0, 64000}, fault \in {"none", "fork"} :
        host_aac_create(bitrate, 2, 0, FALSE, fault)

PeerHostEncode == \E frames \in {0, 1} : host_aac_encode(frames)

InitHost ==
    /\ Init
    /\ w_build = [struct_size |-> SizeofEncoderSettings, proc_version |-> ENCODER_PROC_VERSION]

NextHost ==
    \/ PeerHostCreate
    \/ host_transfer_write
    \/ host_transfer_read
    \/ host_aac_create_return
    \/ PeerHostEncode
    \/ host_aac_encode_read_header
    \/ host_aac_encode_read_data
    \/ host_aac_extra_data_cached
    \/ host_query_extra_data
    \/ host_query_extra_data_read_header
    \/ host_query_extra_data_read_data
    \/ host_aac_destroy
    \/ host_dtor_wait
    \/ host_dtor_join
    \/ stderr_thread_closed
    \/ PeerWrite
    \/ peer_read
    \/ peer_exit

HostSpec == InitHost /\ [][NextHost]_vars

(***************************************************************************)
(* One session with its diagnostics: the co-process writes to stderr while *)
(* it runs, the host's thread reads the pipe in pieces, and the session is *)
(* torn down at any point.                                                 *)
(***************************************************************************)
\* what one write to stderr carries: a character or the end of a line
DiagWrites == {<<97>>, <<98>>, <<NewLine>>}

DrainHostCreate == host_aac_create(128000, 2, 44100, FALSE, "none")

DrainProcCreate == \E written \in BOOLEAN : proc_create("none", written)

DrainProcProcess ==
    /\ wpc = "process"
    /\ \E wrote \in IF DataBroken THEN BOOLEAN ELSE {TRUE} :
           proc_process(NoCodec, CookieDescriptor, TRUE, wrote)

ProcDiag == \E bytes \in DiagWrites : proc_diag(bytes)

\* read returns some of the bytes in the pipe, 0 at end of file, or fails
StderrThread == tpc = "running" /\ \E n \in -1..ReadSize : stderr_thread_routine(n)

\* the steps of the co-process
DrainProc ==
    \/ proc_main_load_fails
    \/ proc_read_settings
    \/ DrainProcCreate
    \/ proc_read_header
    \/ DrainProcProcess
    \/ ProcDiag

NextDrain ==
    \/ DrainHostCreate
    \/ host_transfer_write
    \/ host_transfer_read
    \/ host_aac_create_return
    \/ host_query_extra_data
    \/ host_query_extra_data_read_header
    \/ host_query_extra_data_read_data
    \/ host_aac_destroy
    \/ host_dtor_wait
    \/ host_dtor_join
    \/ DrainProc
    \/ StderrThread

DrainSpec == Init /\ [][NextDrain]_vars

\* the same session with empty lines for diagnostics
TeardownDiag == proc_diag(<<NewLine>>)

TeardownProc ==
    \/ proc_main_load_fails
    \/ proc_read_settings
    \/ DrainProcCreate
    \/ proc_read_header
    \/ DrainProcProcess
    \/ TeardownDiag

NextTeardown ==
    \/ DrainHostCreate
    \/ host_transfer_write
    \/ host_transfer_read
    \/ host_aac_create_return
    \/ host_query_extra_data
    \/ host_query_extra_data_read_header
    \/ host_query_extra_data_read_data
    \/ host_aac_destroy
    \/ host_dtor_wait
    \/ host_dtor_join
    \/ TeardownProc
    \/ StderrThread

\* with the scheduling the system gives: the co-process's fread of a header
\* returns when the pipe has a record or is at its end, the thread's read
\* returns when the pipe has bytes or is at its end, waitpid and join return
\* when what they wait for has ended
TeardownSpec ==
    /\ Init
    /\ [][NextTeardown]_vars
    /\ WF_vars(proc_read_header)
    /\ WF_vars(StderrThread)
    /\ WF_vars(host_dtor_wait)
    /\ WF_vars(host_dtor_join)

(***************************************************************************)
(* The co-process with any program at the other end of its pipes: it reads *)
(* whatever its stdin holds.                                               *)
(***************************************************************************)
\* the settings a client sends: stereo AAC at 128 kbit/s
ClientSettings ==
    encoder_settings(SizeofEncoderSettings, ENCODER_PROC_VERSION, 128000, 2,
                     InputSampleRate, 0, 0, 0)

\* the bytes of one packet's worth of stereo input
ClientPayload == [i \in 1..(CodecOutFramesPerPacket(AAC) * SizeofFloat * 2) |-> i]

\* what a client can write: the settings, a header with any of the three
\* request flags and no payload, an encode request with a payload, with or
\* without the other two flags, the payload, half of it
ClientItems ==
    {SettingsItem(ClientSettings)}
    \cup {HeaderItem(encoder_data_header(0, 0, 0, fl)) : fl \in {0, 2, 4, 6, 8, 10, 12, 14}}
    \cup {HeaderItem(encoder_data_header(Len(ClientPayload), 1, 0, fl)) : fl \in {2, 14}}
    \cup {PayloadItem(ClientPayload),
          PayloadItem(SubSeq(ClientPayload, 1, Len(ClientPayload) \div 2))}

client_write(item) ==
    /\ hpc = "client"
    /\ h_ca.fd_req = "open"
    /\ hist.client_writes < MaxClientWrites
    /\ req' = Append(req, item)
    /\ hist' = [hist EXCEPT !.client_writes = @ + 1]
    /\ UNCHANGED <<w_build, data>>
    /\ UNCHANGED hostVars
    /\ UNCHANGED procVars

client_read ==
    /\ hpc = "client"
    /\ h_ca.fd_data = "open"
    /\ data # <<>>
    /\ data' = Tail(data)
    /\ UNCHANGED <<w_build, req, hist>>
    /\ UNCHANGED hostVars
    /\ UNCHANGED procVars

\* the client closes its end of the request pipe
client_close_req ==
    /\ hpc = "client"
    /\ h_ca.fd_req = "open"
    /\ h_ca' = [h_ca EXCEPT !.fd_req = "closed"]
    /\ UNCHANGED <<audio, hpc, h_settings, h_sent, h_header, h_ret, h_failed,
                   w_build, req, data, hist>>
    /\ UNCHANGED procVars

\* the client closes its end of the data pipe
client_close_data ==
    /\ hpc = "client"
    /\ h_ca.fd_data = "open"
    /\ h_ca' = [h_ca EXCEPT !.fd_data = "closed"]
    /\ data' = <<>>
    /\ UNCHANGED <<audio, hpc, h_settings, h_sent, h_header, h_ret, h_failed,
                   w_build, req, hist>>
    /\ UNCHANGED procVars

ClientWrite == \E item \in ClientItems : client_write(item)

\* the converter gives a packet, fails, or finds the input short
ClientCodecs == {c \in CodecBehaviours : c.pulls = 1} \cup {NoCodec}

ClientProcCreate ==
    /\ wpc = "create"
    /\ \E fault \in {"none", "converter_new"}, written \in BOOLEAN :
           proc_create(fault, written)

ClientProcProcess ==
    /\ wpc = "process"
    /\ \E codec \in ClientCodecs,
          cookie \in {CookieZeroSize, CookieDescriptor},
          wrote1 \in IF DataBroken THEN BOOLEAN ELSE {TRUE},
          wrote2 \in IF DataBroken THEN BOOLEAN ELSE {TRUE} :
           proc_process(codec, cookie, wrote1, wrote2)

\* the co-process has been started with its three pipes
InitProc ==
    /\ audio = [channels |-> 0, samples_per_second |-> 0]
    /\ hpc = "client"
    /\ h_settings = NoSettings
    /\ h_sent = NoSettings
    /\ h_ca = [host_ca_encoder EXCEPT !.pid = 1, !.fd_req = "open", !.fd_data = "open",
                                      !.fd_err = "open"]
    /\ h_header = NoHeader
    /\ h_ret = NoReturn
    /\ h_failed = FALSE
    /\ wpc = "main"
    /\ w_build = [struct_size |-> SizeofEncoderSettings,
                  proc_version |-> ENCODER_PROC_VERSION]
    /\ w_settings = NoSettings
    /\ w_header = NoHeader
    /\ w_payload = <<>>
    /\ w_exit = -1
    /\ ca = ca_encoder
    /\ conv = NoConverters
    /\ req = <<>>
    /\ data = <<>>
    /\ err = <<>>
    /\ tpc = "none"
    /\ t_buf = <<>>
    /\ t_n = 1
    /\ blog = <<>>
    /\ hist = NoHistory

NextProc ==
    \/ ClientWrite
    \/ client_read
    \/ client_close_req
    \/ client_close_data
    \/ proc_read_settings
    \/ ClientProcCreate
    \/ proc_read_header
    \/ proc_read_payload
    \/ ClientProcProcess

ProcSpec == InitProc /\ [][NextProc]_vars

(***************************************************************************)
(* Either end with any program at the other: the host with a peer, or the  *)
(* co-process with a client.                                               *)
(***************************************************************************)
InitEnds == InitHost \/ InitProc

\* the peer writes the next record when the host has taken the last one
EndsPeerWrite == data = <<>> /\ PeerWrite

NextEndsHost ==
    \/ PeerHostCreate
    \/ host_transfer_write
    \/ host_transfer_read
    \/ host_aac_create_return
    \/ PeerHostEncode
    \/ host_aac_encode_read_header
    \/ host_aac_encode_read_data
    \/ host_aac_destroy
    \/ host_dtor_wait
    \/ host_dtor_join
    \/ stderr_thread_closed
    \/ EndsPeerWrite
    \/ peer_read
    \/ peer_exit

NextEnds ==
    \/ hpc # "client" /\ NextEndsHost
    \/ hpc = "client" /\ NextProc

EndsSpec == InitEnds /\ [][NextEnds]_vars

(***************************************************************************)
(* Properties.                                                             *)
(***************************************************************************)
\* the co-process is between aac_create and aac_destroy
EncoderLive == wpc \in {"loop", "payload", "process"}

\* aac_create of the host has returned a session
SessionReturned ==
    \/ hpc \in {"ready", "encode_read_header", "encode_read_data",
                "extra_read_header", "extra_read_data", "destroyed"}
    \/ hpc \in {"dtor_wait", "dtor_join"} /\ h_ret.call # "none"

HostTags == <<SizeofEncoderSettings, ENCODER_PROC_VERSION>>

RECURSIVE Flatten(_)
Flatten(seqs) == IF seqs = <<>> THEN <<>> ELSE Head(seqs) \o Flatten(Tail(seqs))

\* C1: when the co-process has read a settings record whose struct_size or
\* proc_version is not its own, it has exited with status 1 without creating
\* a converter handle and without writing anything to the data pipe, and the
\* host's aac_create returns no session: it is still in its read, or in the
\* destructor, or has returned NULL.
C1_MismatchEndsSession ==
    (hist.settings_read = 1 /\ hist.read_tags # <<w_build.struct_size, w_build.proc_version>>)
    => /\ wpc = "exited"
       /\ w_exit = 1
       /\ conv.created = 0
       /\ hist.items_written = 0
       /\ data = <<>>
       /\ ~SessionReturned
       /\ hpc \in {"create_read", "dtor_wait", "dtor_join", "null"}
       /\ h_ret.call # "none" => h_ret = Returned("create", FALSE)

C1_Witness ==
    /\ hist.settings_read = 1
    /\ hist.read_tags[1] = w_build.struct_size
    /\ hist.read_tags[2] # w_build.proc_version
    /\ hpc = "null"
    /\ h_ret = Returned("create", FALSE)

\* C2: when the settings record the host read back carries a struct_size or
\* proc_version other than the host's own, aac_create returns no session.
C2_HostRejectsEchoMismatch ==
    (hist.echoes_read = 1 /\ hist.echo_tags # HostTags) => ~SessionReturned

\* C3: in a session the settings record is written once and echoed once, and
\* both happen before any streamed message: the co-process reads a data
\* header only after it wrote the echo, and the host writes a request only
\* after it read the echo.
C3_HandshakeOnceBeforeStream ==
    /\ hist.settings_written <= 1
    /\ hist.settings_read <= hist.settings_written
    /\ hist.echoes_written <= hist.settings_read
    /\ hist.echoes_read <= hist.echoes_written
    /\ (hist.headers_read > 0 \/ hist.responses_written > 0) => hist.echoes_written = 1
    /\ (hist.requests > 0 \/ SessionReturned) => hist.echoes_read = 1
    /\ \A i \in 1..Len(req) : req[i].kind = "settings" => i = 1 /\ hist.requests = 0
    /\ \A i \in 1..Len(data) : data[i].kind = "settings" =>
           i = 1 /\ hist.responses_written = 0

C3_Witness ==
    /\ hist.requests >= 2
    /\ hist.responses_written >= 2
    /\ hist.settings_written = 1
    /\ hist.echoes_read = 1

\* C4: the record the host reads back equals the record it sent in every
\* field but out_frames_per_packet, and out_frames_per_packet is positive.
C4_EchoPreservesSettings ==
    hpc = "create_return" =>
        /\ [h_settings EXCEPT !.out_frames_per_packet = 0]
               = [h_sent EXCEPT !.out_frames_per_packet = 0]
        /\ h_settings.out_frames_per_packet > 0

C4_Witness ==
    /\ hpc = "create_return"
    /\ h_sent.flags = ENCODER_FLAG_ALLOW_HE_AAC
    /\ h_sent.out_frames_per_packet = 0
    /\ h_settings.out_frames_per_packet = CodecOutFramesPerPacket(HE)

\* C5: the stream is request-then-response: at most one request is
\* outstanding, the host is about to write a request only when every
\* response has been read completely and both pipes are empty, and the
\* co-process has written no more responses than it has read whole requests.
C5_RequestThenResponse ==
    /\ hist.requests - hist.responses \in {0, 1}
    /\ CountKind(req, "header") <= 1
    /\ hist.requests_read <= hist.requests
    /\ hist.responses_written <= hist.requests_read
    /\ hist.responses <= hist.responses_written
    /\ wpc = "process" => hist.responses_written = hist.requests_read - 1
    /\ hpc = "ready" =>
           /\ hist.responses = hist.requests
           /\ req = <<>>
           /\ data = <<>>
           /\ wpc \in {"loop", "exited"}

C5_Witness ==
    /\ hist.requests = 2
    /\ hist.responses = 1
    /\ wpc = "process"
    /\ w_payload # <<>>
    /\ hist.requests_read = 2
    /\ hist.responses_written = 1

\* C6: the co-process writes exactly one response for every encode request,
\* with no packet or one packet, also when input_buffer holds several
\* blocks; the converter is called at most once for a request.
C6_OneResponsePerEncode ==
    /\ hist.encode_responses = hist.encodes_handled
    /\ hist.encodes_handled <= hist.encode_requests
    /\ hist.last_encode.n > 0 =>
           /\ hist.last_encode.responses = 1
           /\ hist.last_encode.packets \in {0, 1}
    /\ hist.emitted <= hist.encode_responses
    /\ hist.codec_calls <= hist.encodes_handled
    /\ hpc = "ready" => hist.encode_responses = hist.encode_requests

C6_Witness ==
    /\ wpc = "loop"
    /\ hist.encode_responses = 2
    /\ hist.emitted = 1
    /\ hist.last_encode.packets = 1
    /\ Len(ca.input_buffer) >= ca.in_bytes_required

\* C7: when input_buffer holds fewer bytes than one push after the payload
\* was appended, the converter is not called, the response header has size 0
\* and no packet follows it, and the host's aac_encode returns true with
\* received_packet false.
C7_ShortBufferNoPacket ==
    (EncoderLive /\ hist.last_encode.n > 0
        /\ hist.last_encode.appended < ca.in_bytes_required)
    => /\ ~hist.last_encode.invoked
       /\ hist.last_encode.size = 0
       /\ hist.last_encode.responses = 1
       /\ hist.last_encode.packets = 0
       /\ hist.encode_ret.n = hist.last_encode.n =>
              hist.encode_ret.ok /\ ~hist.encode_ret.received_packet

C7_Witness ==
    /\ EncoderLive
    /\ hist.last_encode.n = 2
    /\ hist.last_encode.appended > 0
    /\ hist.last_encode.appended < ca.in_bytes_required
    /\ hist.encode_ret.n = 2
    /\ h_ret.call = "encode"

\* C8: the slices handed to the converter, concatenated in order and
\* followed by input_buffer, are the payloads of the requests handled so far
\* in arrival order, and every slice is one push long.
C8_ByteOrderPreserved ==
    EncoderLive =>
        /\ Flatten(hist.slices) \o ca.input_buffer = [i \in 1..hist.accepted |-> i]
        /\ \A i \in 1..Len(hist.slices) : Len(hist.slices[i]) = ca.in_bytes_required

C8_Witness ==
    /\ EncoderLive
    /\ Len(hist.slices) >= 2
    /\ ca.input_buffer # <<>>
    /\ Len(ca.input_buffer) < ca.in_bytes_required

\* C9: the i-th packet (from 0) carries the timestamp i * k - priming_samples,
\* k the frames of one push, and the host reports it as pts and as dts.
C9_PacketTimestamps ==
    EncoderLive =>
        LET k == ca.in_bytes_required \div ca.in_frame_size
        IN  /\ hist.last_encode.packets = 1 =>
                   hist.last_encode.pts = (hist.emitted - 1) * k - ca.priming_samples
            /\ hist.encode_ret.received_packet =>
                   /\ hist.encode_ret.pts = (hist.received - 1) * k - ca.priming_samples
                   /\ hist.encode_ret.dts = hist.encode_ret.pts

C9_Witness ==
    /\ EncoderLive
    /\ hist.received = 3
    /\ hist.encode_ret.received_packet
    /\ hist.encode_ret.pts > 0
    /\ hist.encode_ret.dts = 2 * CodecOutFramesPerPacket(ca.format_id) - ca.priming_samples

\* C10: when the converter returned a status other than 0 and 1 for an
\* encode request, the host's aac_encode for that request returns false.
C10_FatalStatusFailsEncode ==
    (hist.last_encode.n > 0 /\ hist.last_encode.status = StatusError
        /\ hist.encode_ret.n = hist.last_encode.n)
    => ~hist.encode_ret.ok

\* C11: once the converter has returned a status other than 0 and 1, the
\* co-process handles no later encode request and does not call the
\* converter again.
C11_FatalStatusAbortsSession ==
    hist.fatal_at > 0 =>
        /\ hist.encodes_handled = hist.fatal_at
        /\ hist.last_encode.n = hist.fatal_at

C13_NoCookieAnswersEmpty ==
    (/\ hist.cookie_queries > 0
     /\ \/ ~hist.cookie.fetched
        \/ hist.cookie.bytes = CookieNoDescriptor.bytes) =>
        /\ hist.cookie.size = 0
        /\ hist.cookie.answered => hist.cookie.live
        /\ \A i \in 1..Len(hist.extra_results) :
               hist.extra_results[i].queries = hist.cookie_queries =>
                   /\ ~hist.extra_results[i].ok
                   /\ hist.extra_results[i].blob = <<>>
        /\ hist.last_encode.n > 0 => hist.last_encode.responses = 1
        /\ hist.encode_ret.n > 0 => hist.encode_ret.ok

C13_Witness ==
    /\ hist.cookie_queries = 1
    /\ hist.cookie.bytes = CookieNoDescriptor.bytes
    /\ Len(hist.extra_results) = 1
    /\ hist.extra_results[1].requests = 1
    /\ ~hist.extra_results[1].ok
    /\ hist.encode_ret.n = 1
    /\ hist.encode_ret.received_packet
    /\ h_ret.call = "encode"
    /\ h_ret.size > 0

\* the cookies that hold the whole of a tree up to the end of the payload of
\* its nested descriptor
WholeTrees(trees) ==
    UNION {{Prefix(tree, n) : n \in (Len(tree) - 3)..Len(tree)} : tree \in trees}

C15_MalformedYieldsEmpty ==
    (/\ hist.cookie_queries > 0
     /\ hist.cookie.fetched
     /\ hist.cookie.bytes \notin
            WholeTrees({EsdsTree(t1, MP4DecConfigDescrTag,
                                 MP4DecSpecificDescrTag, k, payload) :
                        t1 \in OuterTags, k \in SizeWidths, payload \in Payloads}))
    => /\ hist.cookie.blob = <<>>
       /\ ~hist.cookie.overrun
       /\ hist.cookie.live

\* aac_create of the co-process has run and the host has not yet read: the
\* record the host sent is still in h_sent
CreateWindow == hpc = "create_read" /\ hist.create_fault # ""

\* the output sample rate the converter is created with for h_sent
RequestedRate ==
    IF h_sent.samplerate_out # 0 THEN h_sent.samplerate_out ELSE h_sent.samplerate_in

\* the candidates for h_sent, in the order they are tried
Candidates ==
    IF h_sent.flags % 2 = 1 /\ h_sent.channels # 3 THEN <<HE_V2, HE, AAC>> ELSE <<AAC>>

\* a range the converter advertises for the format holds the bitrate of h_sent
InRange(format) ==
    \E r \in CodecBitRateRanges(format, RequestedRate) :
        r[1] <= h_sent.bitrate /\ h_sent.bitrate <= r[2]

\* C16: the format a session is configured with advertises a range that
\* holds the requested bitrate, both ends included; with a converter that
\* works, a session is configured exactly when a candidate advertises such a
\* range; with the single range [96000,160000], 96000, 128000 and 160000 are
\* accepted and 64000, 95000 and 161000 are rejected.
C16_BitrateAcceptedIffInRange ==
    CreateWindow =>
        /\ wpc = "loop" => InRange(ca.format_id)
        /\ hist.create_fault \in {"none", "in_frames"} =>
               (wpc = "loop" <=> \E i \in 1..Len(Candidates) : InRange(Candidates[i]))
        /\ (/\ hist.create_fault = "none"
            /\ Candidates = <<AAC>>
            /\ CodecBitRateRanges(AAC, RequestedRate) = {<<96000, 160000>>})
           => /\ h_sent.bitrate \in {96000, 128000, 160000}
                  => wpc = "loop" /\ ca.format_id = AAC
              /\ h_sent.bitrate \in {64000, 95000, 161000} => wpc = "exited"

C16_Witness ==
    /\ CreateWindow
    /\ hist.create_fault = "none"
    /\ Candidates = <<AAC>>
    /\ CodecBitRateRanges(AAC, RequestedRate) = {<<96000, 160000>>}
    /\ h_sent.bitrate = 160000
    /\ wpc = "loop"
    /\ ca.format_id = AAC

\* C17: with a converter that works, the candidates are HE-AAC v2, HE-AAC,
\* AAC-LC when flag bit 0 is set and the channels are not 3, and AAC-LC alone
\* otherwise; the session is configured with the first candidate that
\* advertises a range for the bitrate, one converter was created per
\* candidate up to that one and none after; when no candidate does, every
\* candidate was tried and the session is not configured.
C17_FirstAcceptedFormat ==
    (CreateWindow /\ hist.create_fault \in {"none", "in_frames"}) =>
        IF wpc = "loop"
        THEN \E i \in 1..Len(Candidates) :
                 /\ ca.format_id = Candidates[i]
                 /\ InRange(Candidates[i])
                 /\ \A j \in 1..(i - 1) : ~InRange(Candidates[j])
                 /\ conv.created = i
                 /\ ca.converter = i
        ELSE /\ conv.created = Len(Candidates)
             /\ \A j \in 1..Len(Candidates) : ~InRange(Candidates[j])

C17_Witness ==
    /\ CreateWindow
    /\ hist.create_fault = "none"
    /\ Candidates = <<HE_V2, HE, AAC>>
    /\ InRange(AAC)
    /\ wpc = "loop"
    /\ ca.format_id = HE
    /\ conv.created = 2

\* C18: when the converter works and no candidate advertises a range for the
\* bitrate, the co-process exits with 1 having written no settings record;
\* it reads no data header and writes no response, the host sends no
\* request, and the host's aac_create returns NULL.
C18_NoFormatFailsCreate ==
    /\ (/\ CreateWindow
        /\ hist.create_fault = "none"
        /\ \A i \in 1..Len(Candidates) : ~InRange(Candidates[i]))
       => /\ wpc = "exited"
          /\ w_exit = 1
          /\ hist.echoes_written = 0
          /\ data = <<>>
    /\ (hist.create_fault = "none" /\ hist.echoes_written = 0)
       => /\ wpc = "exited"
          /\ hist.items_written = 0
          /\ hist.headers_read = 0
          /\ hist.requests_read = 0
          /\ hist.responses_written = 0
          /\ hist.requests = 0
          /\ hist.calls = 0
          /\ hpc \in {"create_read", "dtor_wait", "dtor_join", "null"}
          /\ h_ret.call = "create" => ~h_ret.ok

C18_Witness ==
    /\ hist.create_fault = "none"
    /\ hist.settings_read = 1
    /\ hist.echoes_written = 0
    /\ hpc = "null"
    /\ h_ret.call = "create"
    /\ ~h_ret.ok

\* C19: a session is configured, and in_bytes_required set, only when the
\* frames per packet of the converter's output are a whole multiple of the
\* frames per packet of its input; otherwise the co-process writes no
\* settings record.
C19_InexactRatioRejected ==
    (hist.create_fault # "" /\ wpc = "loop") =>
        /\ CodecOutFramesPerPacket(ca.format_id)
               % CodecInFramesPerPacket(hist.create_fault) = 0
        /\ ca.in_bytes_required * CodecInFramesPerPacket(hist.create_fault)
               = CodecOutFramesPerPacket(ca.format_id) * ca.in_frame_size

\* C20: while the co-process has an encoder, the length of input_buffer is a
\* whole multiple of in_frame_size, also right after the bytes of a request
\* were appended, and every block taken from it is a whole number of frames.
C20_WholeFramesBuffered ==
    EncoderLive =>
        /\ ca.in_frame_size > 0
        /\ Len(ca.input_buffer) % ca.in_frame_size = 0
        /\ hist.last_encode.appended % ca.in_frame_size = 0
        /\ \A i \in 1..Len(hist.slices) : Len(hist.slices[i]) % ca.in_frame_size = 0

C20_Witness ==
    /\ EncoderLive
    /\ hist.slices # <<>>
    /\ Len(ca.input_buffer) = ca.in_frame_size
    /\ Len(ca.input_buffer) < ca.in_bytes_required

\* C21: while the co-process has its encoder, no step changes
\* in_bytes_required, in_frame_size, priming_samples or channels.
C21_ConfigurationFrozen ==
    [][(EncoderLive /\ EncoderLive') =>
          /\ ca'.in_bytes_required = ca.in_bytes_required
          /\ ca'.in_frame_size = ca.in_frame_size
          /\ ca'.priming_samples = ca.priming_samples
          /\ ca'.channels = ca.channels]_vars

C21_Witness ==
    /\ EncoderLive
    /\ ca.in_bytes_required > 0
    /\ hist.slices # <<>>
    /\ hist.emitted > 0
    /\ hist.cookie_queries > 0

\* the destructor of the host's session has started
InDestructor == hpc \in {"dtor_wait", "dtor_join"} \/ h_ca.fd_err = "closed"

\* C22: the destructor closes the request and data descriptors, then waits
\* for the co-process, then joins the thread, then closes the diagnostic
\* descriptor: the wait finds both descriptors closed, the join finds the
\* co-process waited for, and the diagnostic descriptor is never closed
\* while the thread runs.
C22_TeardownOrder ==
    /\ hpc = "dtor_wait"
         => /\ h_ca.fd_req = "closed" /\ h_ca.fd_data = "closed"
            /\ h_ca.pid > 0
            /\ h_ca.stderr_thread = "joinable" /\ h_ca.fd_err = "open"
    /\ hpc = "dtor_join"
         => /\ h_ca.fd_req = "closed" /\ h_ca.fd_data = "closed"
            /\ h_ca.pid = -1 /\ wpc = "exited"
            /\ h_ca.stderr_thread = "joinable" /\ h_ca.fd_err = "open"
    /\ h_ca.stderr_thread = "joined"
         => /\ h_ca.fd_req = "closed" /\ h_ca.fd_data = "closed"
            /\ h_ca.pid = -1 /\ wpc = "exited"
    /\ h_ca.fd_err = "closed" => h_ca.stderr_thread = "joined" /\ tpc = "ended"
    /\ (~InDestructor /\ h_ca.pid > 0)
         => /\ h_ca.fd_req = "open" /\ h_ca.fd_data = "open" /\ h_ca.fd_err = "open"
            /\ h_ca.stderr_thread = "joinable"

\* a session whose thread has logged a line is torn down to the end
C22_Witness ==
    /\ hpc = "destroyed"
    /\ h_ca.fd_err = "closed"
    /\ h_ca.stderr_thread = "joined"
    /\ blog # <<>>
    /\ t_n = 0

\* C23: once the destructor has closed the request and data descriptors, the
\* co-process exits, waitpid returns, the thread ends at the end of the
\* diagnostic pipe (or earlier, at a failed read) and the destructor returns.
C23_TeardownCompletes ==
    (hpc = "dtor_wait")
        ~> /\ hpc \in {"null", "destroyed"}
           /\ wpc = "exited"
           /\ h_ca.pid = -1
           /\ tpc = "ended"
           /\ h_ca.fd_err = "closed"

\* the destructor waits for a co-process that is blocked in fread, with
\* diagnostics in the pipe that the thread has not read yet
C23_Witness ==
    /\ hpc = "dtor_wait"
    /\ wpc = "loop"
    /\ tpc = "running"
    /\ err # <<>>

\* where the lines of a byte sequence end
NewLines(bytes) == {i \in 1..Len(bytes) : bytes[i] = NewLine}

\* the bytes between the line end at i and the one before it
LineEndingAt(bytes, i) ==
    LET before == {j \in NewLines(bytes) : j < i}
        from == IF before = {} THEN 1
                ELSE (CHOOSE j \in before : \A k \in before : k <= j) + 1
    IN  SubSeq(bytes, from, i - 1)

\* the newline-terminated lines of a byte sequence, in order
CompleteLines(bytes) ==
    [k \in 1..Cardinality(NewLines(bytes)) |->
        LineEndingAt(bytes, CHOOSE i \in NewLines(bytes) :
                               Cardinality({j \in NewLines(bytes) : j <= i}) = k)]

\* the bytes after the last line end
OpenLine(bytes) ==
    SubSeq(bytes, Len(bytes) - Len(LineEndingAt(bytes, Len(bytes) + 1)) + 1, Len(bytes))

\* the bytes the thread's reads have taken out of the diagnostic pipe
DiagRead == SubSeq(hist.diag, 1, Len(hist.diag) - Len(err))

\* C24: while the session runs, the thread has logged exactly the
\* newline-terminated lines among the bytes it has read, once each and in the
\* order the co-process wrote them, however the reads split them, and keeps
\* the bytes of the unfinished line; it has stopped exactly when a read
\* returned 0 or failed, and a read returns 0 only with the co-process gone
\* and the pipe empty, when every line written has been logged.
C24_LinesForwardedInOrder ==
    tpc # "none" =>
        /\ err = SubSeq(hist.diag, Len(hist.diag) - Len(err) + 1, Len(hist.diag))
        /\ blog = CompleteLines(DiagRead)
        /\ t_n >= 0 => t_buf = OpenLine(DiagRead)
        /\ tpc = "ended" <=> t_n <= 0
        /\ t_n = 0 => /\ wpc = "exited"
                       /\ blog = CompleteLines(hist.diag)

\* a line too long for one read has been logged after another one, while the
\* host waits for the answer to a request
C24_Witness ==
    /\ hpc = "extra_read_header"
    /\ tpc = "running"
    /\ Len(blog) = 2
    /\ blog[1] # blog[2]
    /\ Len(blog[2]) >= ReadSize

\* the flags of the data headers in a piece of the data pipe, in order
RECURSIVE HeaderFlags(_)
HeaderFlags(pipe) ==
    IF pipe = <<>> THEN <<>>
    ELSE (IF Head(pipe).kind = "header" THEN <<Head(pipe).hdr.flags>> ELSE <<>>)
         \o HeaderFlags(Tail(pipe))

\* the co-process finishes the handling of a message
Handled == wpc = "process" /\ wpc' # "process"

\* C25: for a message whose responses the co-process can write, it writes an
\* encode response exactly when the encode bit is set, then an extra-data
\* response exactly when the extra-data bit is set, and stops reading exactly
\* when the exit bit is set; the other bits of a message with the exit bit
\* are answered all the same.
C25_FlagsHandledIndependently ==
    [][(Handled /\ ~DataBroken /\ w_exit' # 128 + 11) =>
          /\ Len(data') >= Len(data)
          /\ SubSeq(data', 1, Len(data)) = data
          /\ HeaderFlags(SubSeq(data', Len(data) + 1, Len(data')))
                = (IF w_header.flags \in {2, 3, 6, 7, 10, 11, 14, 15}
                   THEN <<ENCODER_FLAG_QUERY_ENCODE>> ELSE <<>>)
                  \o (IF w_header.flags \in {4, 5, 6, 7, 12, 13, 14, 15}
                      THEN <<ENCODER_FLAG_QUERY_EXTRA_DATA>> ELSE <<>>)
          /\ (wpc' = "exited") <=> (w_header.flags \in 8..15)
          /\ (wpc' = "loop") <=> (w_header.flags \in 0..7)]_vars

\* a message with all three bits has been answered twice, encode first, and
\* the co-process has left
C25_Witness ==
    /\ wpc = "exited"
    /\ w_header.flags = 14
    /\ HeaderFlags(data) = <<ENCODER_FLAG_QUERY_ENCODE, ENCODER_FLAG_QUERY_EXTRA_DATA>>
    /\ h_ca.fd_data = "open"

\* C26: once the co-process has handled a message with the exit bit it has
\* left: whatever the request pipe holds or receives afterwards, it takes
\* nothing out of the pipe, reads no header and writes nothing to stdout.
C26_NothingAfterExit ==
    [][hist.exit_handled =>
          /\ wpc = "exited" /\ wpc' = "exited"
          /\ Len(req') >= Len(req)
          /\ SubSeq(req', 1, Len(req)) = req
          /\ hist'.headers_read = hist.headers_read
          /\ hist'.requests_read = hist.requests_read
          /\ hist'.items_written = hist.items_written
          /\ hist'.responses_written = hist.responses_written
          /\ Len(data') <= Len(data)]_vars

\* the exit message has been handled and another request is in the pipe
C26_Witness ==
    /\ hist.exit_handled
    /\ wpc = "exited"
    /\ req # <<>>
    /\ Head(req).kind = "header"
    /\ Head(req).hdr.flags = ENCODER_FLAG_QUERY_EXTRA_DATA
    /\ hist.headers_read = 1

\* C27: a session ends gracefully only by a message with the exit flag: the
\* co-process returns 0 only after it has handled such a message, and when
\* the request pipe is closed without one it ends with another result.
C27_GracefulOnlyByExitFlag ==
    (wpc = "exited" /\ w_exit = 0) => hist.exit_handled

\* C28: when the co-process has ended, by whatever path, every converter it
\* created has been disposed of.
C28_ConverterReleasedAtExit ==
    wpc = "exited" => conv.live = {}

\* a read of n bytes finds fewer: the pipe is at its end, or holds another
\* record or a payload of another length
ShortRead(pipe, kind, size) ==
    \/ pipe = <<>>
    \/ Head(pipe).kind # kind
    \/ kind = "payload" /\ Len(Head(pipe).bytes) # size

\* the host's read, or the co-process's read, at position pc returns
HostReadReturns(pc) == hpc = pc /\ hpc' # pc
\* (the co-process as modelled, not the peer that stands for it)
ProcReadReturns(pc) == hpc = "client" /\ wpc = pc /\ wpc' # pc

\* C29: a read that returns short ends the call, or the session, at once.
\* The host's aac_create gives up (and returns NULL after the destructor)
\* and its aac_encode returns false, without reading the data pipe again;
\* the co-process exits without handling the message and without touching
\* either pipe again.
C29_ShortReadIsFatal ==
    [][/\ (HostReadReturns("create_read") /\ ShortRead(data, "settings", 0))
          => /\ hpc' = "dtor_wait"
             /\ h_ca'.fd_req = "closed" /\ h_ca'.fd_data = "closed"
             /\ data' = data
             /\ hist'.echoes_read = hist.echoes_read
       /\ (HostReadReturns("encode_read_header") /\ ShortRead(data, "header", 0))
          => /\ hpc' = "ready"
             /\ h_ret' = Returned("encode", FALSE)
             /\ data' = data
             /\ hist'.responses = hist.responses
       /\ (HostReadReturns("encode_read_data") /\ ShortRead(data, "payload", h_header.size))
          => /\ hpc' = "ready"
             /\ h_ret' = Returned("encode", FALSE)
             /\ data' = data
             /\ hist'.responses = hist.responses /\ hist'.received = hist.received
       /\ (ProcReadReturns("main") /\ ShortRead(req, "settings", 0))
          => /\ wpc' = "exited" /\ w_exit' # 0
             /\ hist'.settings_read = hist.settings_read
             /\ conv' = conv /\ data' = data
       /\ (ProcReadReturns("loop") /\ ShortRead(req, "header", 0))
          => /\ wpc' = "exited"
             /\ hist'.headers_read = hist.headers_read
             /\ hist'.encodes_handled = hist.encodes_handled
             /\ data' = data
       /\ (ProcReadReturns("payload") /\ ShortRead(req, "payload", w_header.size))
          => /\ wpc' = "exited"
             /\ hist'.requests_read = hist.requests_read
             /\ hist'.encodes_handled = hist.encodes_handled
             /\ hist'.accepted = hist.accepted
             /\ data' = data
       /\ (wpc = "exited" /\ hpc = "client") => (wpc' = "exited" /\ Len(req') >= Len(req))
       /\ (hpc' = "null" /\ hpc # "start") => h_ret' = Returned("create", FALSE)]_vars

\* the host's aac_encode has failed at a response whose payload did not
\* come, with the next record still in the pipe
C29_HostFailedAtPayload ==
    /\ hpc = "ready"
    /\ h_ret = Returned("encode", FALSE)
    /\ h_header.size > 0
    /\ data # <<>>
    /\ Head(data).kind = "header"

\* the co-process has exited at half a payload, the request unhandled, while
\* the client still holds the request pipe open
C29_Witness ==
    /\ hpc = "client"
    /\ wpc = "exited"
    /\ hist.headers_read = 1
    /\ hist.requests_read = 0
    /\ hist.encodes_handled = 0
    /\ w_header.size = Len(ClientPayload)
    /\ h_ca.fd_req = "open"

\* C30: the encoder's converter has the channel map {2,0,1}, {2,0,1,3},
\* {2,0,1,3,4}, {2,0,1,4,5,3} or {2,0,1,6,7,4,5,3} when the session has 3,
\* 4, 5, 6 or 8 channels, and no channel map with any other channel count.
C30_ChannelMapByCount ==
    EncoderLive =>
        /\ ca.channels = audio.channels
        /\ ca.channels = 3 => conv.channel_map = <<2, 0, 1>>
        /\ ca.channels = 4 => conv.channel_map = <<2, 0, 1, 3>>
        /\ ca.channels = 5 => conv.channel_map = <<2, 0, 1, 3, 4>>
        /\ ca.channels = 6 => conv.channel_map = <<2, 0, 1, 4, 5, 3>>
        /\ ca.channels = 8 => conv.channel_map = <<2, 0, 1, 6, 7, 4, 5, 3>>
        /\ ca.channels \notin {3, 4, 5, 6, 8} => conv.channel_map = <<>>

\* a 5.1 session has been configured
C30_Witness ==
    /\ EncoderLive
    /\ ca.channels = 6
    /\ ca.converter \in conv.live
    /\ conv.channel_map = <<2, 0, 1, 4, 5, 3>>

\* the frames the input callback has removed from input_buffer so far
FramesRemoved == Len(Flatten(hist.slices)) \div ca.in_frame_size

\* C31: while the co-process has its encoder, total_samples equals the number
\* of frames the input callback has removed from input_buffer: every cycle
\* advances it by the frames the callback took in that cycle.
C31_TotalSamplesCountsRemoved ==
    EncoderLive => ca.total_samples = FramesRemoved % Modulus

\* C32: the co-process holds at most one converter handle that is not
\* disposed of, and it is the one of its encoder: the handle of a candidate
\* format that was rejected is released before the next one is made, and none
\* is left when every candidate has failed.
C32_AtMostOneLiveConverter ==
    /\ Cardinality(conv.live) <= 1
    /\ \A c \in conv.live : c = ca.converter

\* C33: when the read of the extra-data payload finds the data pipe at its
\* end, the host keeps no blob and the query reports that the extra data is
\* unavailable: what aac_extra_data hands out is what the co-process sent, or
\* nothing.
C33_ExtraDataOnlyAsSent ==
    [][(HostReadReturns("extra_read_data") /\ DataAtEof)
          => /\ h_ca'.extra_data = <<>>
             /\ ~h_ret'.ok]_vars

\* C34: an encode request whose payload is at most one push long, handled
\* when input_buffer holds less than one push, leaves less than one push in
\* input_buffer, whatever the converter does; so the buffer is below one push
\* after every request of a host that sends the frame size it was told.
C34_BufferBelowOnePush ==
    [][(/\ Handled
        /\ HasFlag(w_header.flags, ENCODER_FLAG_QUERY_ENCODE)
        /\ w_header.size <= ca.in_bytes_required
        /\ Len(ca.input_buffer) < ca.in_bytes_required)
          => Len(ca'.input_buffer) < ca.in_bytes_required]_vars

\* C35: when the host's aac_create has returned NULL, nothing of the session
\* is left: run_proc holds none of the descriptors of its pipes, a failed
\* run_proc has stored no descriptor, the descriptors that were handed out are
\* closed, the co-process that was started has exited and was waited for, and
\* the thread that was started has ended and was joined.
C35_FailedCreateLeavesNothing ==
    /\ hist.pipes_left = {}
    /\ hpc = "null" =>
        /\ h_ret = Returned("create", FALSE)
        /\ h_ca.pid = -1
        /\ wpc = "none" =>
            /\ h_ca.fd_req = "none" /\ h_ca.fd_data = "none" /\ h_ca.fd_err = "none"
            /\ h_ca.stderr_thread = "none"
            /\ tpc = "none"
        /\ wpc # "none" =>
            /\ wpc = "exited"
            /\ h_ca.fd_req = "closed" /\ h_ca.fd_data = "closed" /\ h_ca.fd_err = "closed"
            /\ h_ca.stderr_thread = "joined"
            /\ tpc = "ended"

\* aac_create has returned NULL after the read of the echoed settings failed
C35_Witness ==
    /\ hpc = "null"
    /\ wpc = "exited"
    /\ hist.settings_written = 1
    /\ hist.echoes_read = 0
    /\ h_ca.stderr_thread = "joined"

\* the host is in a read of the data pipe that cannot return: the pipe is
\* empty and the co-process still holds its other end
HostBlockedReading ==
    /\ hpc \in {"create_read", "encode_read_header", "encode_read_data",
                "extra_read_header", "extra_read_data"}
    /\ data = <<>>
    /\ ~DataAtEof

\* the co-process is in an fread of stdin that cannot return: the pipe holds
\* fewer bytes than it asks for and the host still holds its other end
ProcBlockedReading ==
    /\ h_ca.fd_req = "open"
    /\ \/ wpc = "main" /\ (req = <<>> \/ w_build.struct_size > SizeofEncoderSettings)
       \/ wpc \in {"loop", "payload"} /\ req = <<>>

\* C36: the host is never blocked in a read of the data pipe while the
\* co-process is blocked in a read of the request pipe.
C36_NoMutualWait == ~(HostBlockedReading /\ ProcBlockedReading)
====
